--------------------------- MODULE ExitHookProofs ---------------------------
(***************************************************************************)
(* HookInv is an invariant of ExitHook for any threads; with it            *)
(* OneInstaller and ArmedFires.                                            *)
(***************************************************************************)
EXTENDS ExitHook, SequenceTheorems, TLAPS

-----------------------------------------------------------------------------
(* Stacks. *)

\* A stack of one call, and one of two.
LEMMA OneFrame ==
  ASSUME NEW l, NEW m
  PROVE  /\ Tail(<<l>>) = <<>> /\ Head(<<l>>) = l /\ <<l>> # <<>>
         /\ <<m>> \o Tail(<<l>>) = <<m>>
         /\ <<m>> \o <<>> = <<m>>
         /\ DOMAIN <<l>> = {1} /\ <<l>>[1] = l
  OBVIOUS

\* A stack of two calls.
LEMMA TwoFrames ==
  ASSUME NEW l, NEW m
  PROVE  /\ Tail(<<l, m>>) = <<m>> /\ Head(<<l, m>>) = l /\ <<l, m>> # <<>>
         /\ <<l>> \o <<m>> = <<l, m>>
         /\ <<l, m>>[1] = l /\ <<l, m>>[2] = m
         /\ DOMAIN <<l, m>> = 1 .. 2
  <1>1. Tail(<<l, m>>) = <<m>> /\ Head(<<l, m>>) = l /\ <<l, m>> # <<>>
    OBVIOUS
  <1>2. <<l>> \o <<m>> = <<l, m>>
    <2> DEFINE S == {l, m}
               c == <<l>> \o <<m>>
               d == <<l, m>>
    <2>1. c \in Seq(S) /\ Len(c) = 2 /\ c[1] = l /\ c[2] = m
      OBVIOUS
    <2>2. d \in Seq(S) /\ Len(d) = 2 /\ d[1] = l /\ d[2] = m
      OBVIOUS
    <2>3. \A i \in 1 .. 2 : i = 1 \/ i = 2
      OBVIOUS
    <2> HIDE DEF c, d
    <2> QED
      BY <2>1, <2>2, <2>3, SeqEqual DEF c, d
  <1>3. <<l, m>>[1] = l /\ <<l, m>>[2] = m
    OBVIOUS
  <1>4. DOMAIN <<l, m>> = 1 .. 2
    OBVIOUS
  <1> QED
    BY <1>1, <1>2, <1>3, <1>4

\* The stack of a thread that is at a place.
LEMMA StackAt ==
  ASSUME StackInv, NEW t \in Thread, NEW l, In(t, l)
  PROVE  \/ stack[t] = <<l>>
         \/ l = "fallback" /\ stack[t] = <<"fallback", "answer">>
  <1>1. stack[t] # <<>> /\ Head(stack[t]) = l
    BY DEF In
  <1>2. CASE stack[t] = <<"fallback", "answer">>
    BY <1>1, <1>2, TwoFrames
  <1>3. CASE \E k \in Labels : stack[t] = <<k>>
    BY <1>1, <1>3, OneFrame
  <1> QED
    BY <1>1, <1>2, <1>3 DEF StackInv

\* Only the stack of the thread that steps changes, and is a good one.
LEMMA StackMove ==
  ASSUME HookInv, NEW t \in Thread, NEW to, stack' = [stack EXCEPT ![t] = to],
         to \in {<<>>, <<"fallback", "answer">>} \cup {<<l>> : l \in Labels},
         tls' \in [Thread -> {"free", "active", "retired"}],
         \A u \in Thread \ {t} : tls'[u] = tls[u],
         tls'[t] = "active" <=> to \notin {<<>>, <<"fallback">>},
         tls'[t] = "free" => to = <<>>
  PROVE  StackInv' /\ stack' \in [Thread -> Seq(Labels)] /\ stack'[t] = to
         /\ \A u \in Thread \ {t} : stack'[u] = stack[u]
  <1>1. stack \in [Thread -> Seq(Labels)] /\ StackInv
    BY DEF HookInv, TypeOK
  <1>2. stack'[t] = to /\ \A u \in Thread \ {t} : stack'[u] = stack[u]
    BY <1>1
  <1>3. to \in Seq(Labels)
    <2>1. <<"fallback", "answer">> \in Seq(Labels)
      BY DEF Labels
    <2>2. \A l \in Labels : <<l>> \in Seq(Labels)
      OBVIOUS
    <2>3. <<>> \in Seq(Labels)
      OBVIOUS
    <2>4. to = <<>> \/ to = <<"fallback", "answer">> \/ \E l \in Labels : to = <<l>>
      OBVIOUS
    <2> QED
      BY <2>1, <2>2, <2>3, <2>4
  <1>4. stack' \in [Thread -> Seq(Labels)]
    BY <1>1, <1>3
  <1>5. StackInv'
    BY <1>1, <1>2 DEF StackInv
  <1> QED
    BY <1>2, <1>4, <1>5

Installs(st) == st \in Creating \cup {<<"recheck">>, <<"publish">>, <<"release">>, <<"give_up">>}

\* The key and INSTALLING stay, and so does the part the thread has in it.
LEMMA KeyQuiet ==
  ASSUME KeyInv, NEW t \in Thread, NEW to, stack'[t] = to,
         \A u \in Thread \ {t} : stack'[u] = stack[u],
         UNCHANGED <<key, created, installing>>,
         Installs(stack[t]) <=> Installs(to),
         stack[t] # <<"publish">>, to # <<"publish">>,
         to \in Creating => ~key
  PROVE  KeyInv'
  <1>1. \A u \in Thread : Installer(u)' <=> Installer(u)
    BY DEF Installer, Installs
  <1>2. \A u \in Thread : stack'[u] = <<"publish">> <=> stack[u] = <<"publish">>
    OBVIOUS
  <1>3. \A u \in Thread : stack'[u] \in Creating => ~key'
    BY DEF KeyInv
  <1> QED
    BY <1>1, <1>2, <1>3 DEF KeyInv

\* The stacks named in the proof are different.
LEMMA Places ==
  /\ ~Installs(<<>>) /\ ~Installs(<<"work">>) /\ ~Installs(<<"fallback">>) /\ ~Installs(<<"check">>)
  /\ ~Installs(<<"cas">>) /\ ~Installs(<<"spin">>) /\ ~Installs(<<"set">>)
  /\ Installs(<<"recheck">>) /\ Installs(<<"create">>) /\ Installs(<<"answer">>) /\ Installs(<<"fallback", "answer">>)
  /\ Installs(<<"publish">>) /\ Installs(<<"release">>) /\ Installs(<<"give_up">>)
  BY OneFrame, TwoFrames DEF Installs, Creating
\* A call goes from one place to another.
LEMMA GotoFacts ==
  ASSUME HookInv, NEW t \in Thread, NEW l, l # "fallback", In(t, l), NEW m \in Labels, m # "fallback",
         Goto(t, m), UNCHANGED tls
  PROVE  /\ stack[t] = <<l>> /\ tls[t] = "active"
         /\ stack'[t] = <<m>> /\ \A u \in Thread \ {t} : stack'[u] = stack[u]
         /\ StackInv' /\ stack' \in [Thread -> Seq(Labels)]
  <1>1. StackInv /\ TypeOK
    BY DEF HookInv
  <1>2. stack[t] = <<l>>
    BY <1>1, StackAt
  <1>3. tls[t] = "active"
    <2>1. <<l>> # <<>> /\ <<l>> # <<"fallback">>
      BY OneFrame
    <2> QED
      BY <1>1, <1>2, <2>1 DEF StackInv
  <1>4. stack' = [stack EXCEPT ![t] = <<m>>]
    <2>1. stack' = [stack EXCEPT ![t] = <<m>> \o Tail(stack[t])]
      BY DEF Goto
    <2> QED
      BY <1>2, <2>1, OneFrame
  <1>5. <<m>> # <<>> /\ <<m>> # <<"fallback">>
    BY OneFrame
  <1>6. tls' \in [Thread -> {"free", "active", "retired"}]
    BY <1>1 DEF TypeOK
  <1> QED
    BY <1>2, <1>3, <1>4, <1>5, <1>6, StackMove

\* Every step keeps the invariant.
LEMMA StepSafe == HookInv /\ [Next]_vars => HookInv'
  <1> SUFFICES ASSUME HookInv, [Next]_vars PROVE HookInv'
    OBVIOUS
  <1>0. TypeOK /\ StackInv /\ KeyInv /\ ArmedFires
    BY DEF HookInv
  <1>l. {"work", "fallback", "check", "cas", "spin", "recheck", "create", "answer",
         "publish", "release", "give_up", "set"} \subseteq Labels
    BY DEF Labels
  <1>1. ASSUME NEW t \in Thread, Enter(t)
        PROVE  HookInv'
    <2>1. stack[t] = <<>> /\ UNCHANGED <<platform, key, created, installing, value, armed>>
      BY <1>1 DEF Enter
    <2>2. CASE tls[t] = "free"
      <3> DEFINE m == IF armed[t] THEN "work" ELSE "check"
      <3>1. tls' = [tls EXCEPT ![t] = "active"] /\ stack' = [stack EXCEPT ![t] = <<m>> \o <<>>]
        BY <1>1, <2>2 DEF Enter, With
      <3>2. m \in {"work", "check"}
        OBVIOUS
      <3> HIDE DEF m
      <3>3. stack' = [stack EXCEPT ![t] = <<m>>] /\ <<m>> # <<>> /\ <<m>> # <<"fallback">>
        BY <3>1, <3>2, OneFrame
      <3>4. /\ tls' \in [Thread -> {"free", "active", "retired"}]
            /\ tls'[t] = "active" /\ \A u \in Thread \ {t} : tls'[u] = tls[u]
        BY <1>0, <3>1 DEF TypeOK
      <3>5. /\ StackInv' /\ stack' \in [Thread -> Seq(Labels)] /\ stack'[t] = <<m>>
            /\ \A u \in Thread \ {t} : stack'[u] = stack[u]
        BY <1>l, <3>2, <3>3, <3>4, StackMove
      <3>6. ~Installs(<<m>>) /\ <<m>> # <<"publish">> /\ <<>> # <<"publish">> /\ <<m>> \notin Creating
        BY <3>2, Places, OneFrame DEF Installs
      <3>7. KeyInv'
        BY <1>0, <2>1, <3>5, <3>6, Places, KeyQuiet
      <3>8. ArmedFires'
        BY <1>0, <2>1, <2>2, <3>4 DEF ArmedFires
      <3> QED
        BY <1>0, <2>1, <3>4, <3>5, <3>7, <3>8 DEF HookInv, TypeOK
    <2>3. CASE tls[t] # "free"
      <3>1. UNCHANGED tls /\ stack' = [stack EXCEPT ![t] = <<"fallback">> \o <<>>]
        BY <1>1, <2>3 DEF Enter, With
      <3>2. stack' = [stack EXCEPT ![t] = <<"fallback">>] /\ <<"fallback">> # <<>>
        BY <3>1, OneFrame
      <3>3. tls[t] # "active" /\ tls' \in [Thread -> {"free", "active", "retired"}]
        BY <1>0, <2>1, <3>1 DEF StackInv, TypeOK
      <3>4. /\ StackInv' /\ stack' \in [Thread -> Seq(Labels)] /\ stack'[t] = <<"fallback">>
            /\ \A u \in Thread \ {t} : stack'[u] = stack[u]
        BY <1>l, <2>3, <3>1, <3>2, <3>3, StackMove
      <3>5. KeyInv'
        <4>1. <<"fallback">> # <<"publish">> /\ <<>> # <<"publish">> /\ <<"fallback">> \notin Creating
          BY Places, OneFrame DEF Installs
        <4> QED
          BY <1>0, <2>1, <3>4, <4>1, Places, KeyQuiet
      <3>6. ArmedFires'
        BY <1>0, <2>1, <3>1 DEF ArmedFires
      <3> QED
        BY <1>0, <2>1, <3>3, <3>4, <3>5, <3>6 DEF HookInv, TypeOK
    <2> QED
      BY <2>2, <2>3
  <1>2. ASSUME NEW t \in Thread, Exit(t)
        PROVE  HookInv'
    <2>1. /\ stack[t] = <<>> /\ tls' = [tls EXCEPT ![t] = "retired"]
          /\ value' = [value EXCEPT ![t] = FALSE]
          /\ UNCHANGED <<platform, key, created, installing, armed, stack>>
      BY <1>2 DEF Exit
    <2>2. /\ tls' \in [Thread -> {"free", "active", "retired"}] /\ value' \in [Thread -> BOOLEAN]
          /\ tls'[t] = "retired" /\ \A u \in Thread \ {t} : tls'[u] = tls[u] /\ value'[u] = value[u]
      BY <1>0, <2>1 DEF TypeOK
    <2>3. StackInv'
      BY <1>0, <2>1, <2>2 DEF StackInv
    <2>4. KeyInv'
      BY <1>0, <2>1 DEF KeyInv, Installer
    <2>5. ArmedFires'
      BY <1>0, <2>1, <2>2 DEF ArmedFires
    <2> QED
      BY <1>0, <2>1, <2>2, <2>3, <2>4, <2>5 DEF HookInv, TypeOK
  <1>3. ASSUME NEW t \in Thread, Leave(t)
        PROVE  HookInv'
    <2>1. stack' = [stack EXCEPT ![t] = Tail(stack[t])]
      BY <1>3 DEF Leave, Return
    <2>2. UNCHANGED <<platform, key, created, installing, value, armed>>
      BY <1>3 DEF Leave
    <2>3. CASE In(t, "work") /\ tls' = [tls EXCEPT ![t] = "free"]
      <3>1. stack[t] = <<"work">> /\ stack' = [stack EXCEPT ![t] = <<>>]
        <4>1. stack[t] = <<"work">>
          BY <1>0, <2>3, StackAt
        <4>2. Tail(stack[t]) = <<>>
          BY <4>1, OneFrame
        <4> QED
          BY <2>1, <4>1, <4>2
      <3>2. /\ tls' \in [Thread -> {"free", "active", "retired"}]
            /\ tls'[t] = "free" /\ \A u \in Thread \ {t} : tls'[u] = tls[u]
        BY <1>0, <2>3 DEF TypeOK
      <3>3. /\ StackInv' /\ stack' \in [Thread -> Seq(Labels)] /\ stack'[t] = <<>>
            /\ \A u \in Thread \ {t} : stack'[u] = stack[u]
        BY <3>1, <3>2, StackMove
      <3>4. <<"work">> # <<"publish">> /\ <<>> # <<"publish">> /\ <<>> \notin Creating
        BY Places, OneFrame DEF Installs
      <3>5. KeyInv'
        BY <1>0, <2>2, <3>1, <3>3, <3>4, Places, KeyQuiet
      <3>6. tls[t] = "active"
        BY <1>0, <3>1, OneFrame DEF StackInv
      <3>7. ArmedFires'
        BY <1>0, <2>2, <3>2, <3>6 DEF ArmedFires
      <3> QED
        BY <1>0, <2>2, <3>2, <3>3, <3>5, <3>7 DEF HookInv, TypeOK
    <2>4. CASE In(t, "fallback") /\ UNCHANGED tls
      <3>1. \/ stack[t] = <<"fallback">> /\ stack' = [stack EXCEPT ![t] = <<>>]
            \/ stack[t] = <<"fallback", "answer">> /\ stack' = [stack EXCEPT ![t] = <<"answer">>]
        <4>1. stack[t] = <<"fallback">> \/ stack[t] = <<"fallback", "answer">>
          BY <1>0, <2>4, StackAt
        <4>2. Tail(<<"fallback">>) = <<>> /\ Tail(<<"fallback", "answer">>) = <<"answer">>
          BY OneFrame, TwoFrames
        <4> QED
          BY <2>1, <4>1, <4>2
      <3>2. tls' \in [Thread -> {"free", "active", "retired"}]
        BY <1>0, <2>4 DEF TypeOK
      <3>3. CASE stack[t] = <<"fallback">> /\ stack' = [stack EXCEPT ![t] = <<>>]
        <4>1. tls[t] # "active"
          BY <1>0, <3>3 DEF StackInv
        <4>2. /\ StackInv' /\ stack' \in [Thread -> Seq(Labels)] /\ stack'[t] = <<>>
              /\ \A u \in Thread \ {t} : stack'[u] = stack[u]
          BY <2>4, <3>2, <3>3, <4>1, StackMove
        <4>3. <<"fallback">> # <<"publish">> /\ <<>> # <<"publish">> /\ <<>> \notin Creating
          BY Places, OneFrame DEF Installs
        <4>4. KeyInv'
          BY <1>0, <2>2, <3>3, <4>2, <4>3, Places, KeyQuiet
        <4> QED
          BY <1>0, <2>2, <2>4, <3>2, <4>2, <4>4 DEF HookInv, TypeOK, ArmedFires
      <3>4. CASE stack[t] = <<"fallback", "answer">> /\ stack' = [stack EXCEPT ![t] = <<"answer">>]
        <4>0. <<"fallback", "answer">> # <<"fallback">> /\ <<"answer">> # <<"fallback">> /\ <<"answer">> # <<>>
          BY OneFrame, TwoFrames
        <4>1. tls[t] = "active"
          BY <1>0, <3>4, <4>0, TwoFrames DEF StackInv
        <4>2. /\ StackInv' /\ stack' \in [Thread -> Seq(Labels)] /\ stack'[t] = <<"answer">>
              /\ \A u \in Thread \ {t} : stack'[u] = stack[u]
          BY <1>l, <2>4, <3>2, <3>4, <4>0, <4>1, StackMove
        <4>3. <<"fallback", "answer">> # <<"publish">> /\ <<"answer">> # <<"publish">> /\ ~key
          BY <1>0, <3>4, OneFrame, TwoFrames DEF KeyInv, Creating
        <4>4. KeyInv'
          BY <1>0, <2>2, <3>4, <4>2, <4>3, Places, KeyQuiet
        <4> QED
          BY <1>0, <2>2, <2>4, <3>2, <4>2, <4>4 DEF HookInv, TypeOK, ArmedFires
      <3> QED
        BY <3>1, <3>3, <3>4
    <2> QED
      BY <1>3, <2>3, <2>4 DEF Leave
  <1>4. ASSUME NEW t \in Thread, Check(t)
        PROVE  HookInv'
    <2>1. PICK m \in {"set", "cas"} : Goto(t, m)
      BY <1>4 DEF Check
    <2>2. In(t, "check") /\ UNCHANGED <<platform, key, created, installing, value, armed, tls>>
      BY <1>4 DEF Check
    <2>3. /\ stack[t] = <<"check">> /\ stack'[t] = <<m>> /\ \A u \in Thread \ {t} : stack'[u] = stack[u]
          /\ StackInv' /\ stack' \in [Thread -> Seq(Labels)]
      BY <1>l, <2>1, <2>2, GotoFacts
    <2>4. <<"check">> # <<"publish">> /\ <<m>> # <<"publish">> /\ (<<m>> \in Creating => ~key)
      BY <2>1, Places, OneFrame DEF Installs, Creating
    <2>5. KeyInv'
      BY <1>0, <2>1, <2>2, <2>3, <2>4, Places, KeyQuiet
    <2> QED
      BY <1>0, <2>2, <2>3, <2>5 DEF HookInv, TypeOK, ArmedFires
  <1>5. ASSUME NEW t \in Thread, Cas(t)
        PROVE  HookInv'
    <2>1. In(t, "cas") /\ installing' = TRUE /\ UNCHANGED <<platform, key, created, value, armed, tls>>
      BY <1>5 DEF Cas
    <2>2. CASE installing
      <3>1. Goto(t, "spin") /\ UNCHANGED installing
        BY <1>0, <1>5, <2>2 DEF Cas, TypeOK
      <3>2. /\ stack[t] = <<"cas">> /\ stack'[t] = <<"spin">> /\ \A u \in Thread \ {t} : stack'[u] = stack[u]
            /\ StackInv' /\ stack' \in [Thread -> Seq(Labels)]
        BY <1>l, <2>1, <3>1, GotoFacts
      <3>3. <<"cas">> # <<"publish">> /\ <<"spin">> # <<"publish">> /\ <<"spin">> \notin Creating
        BY Places, OneFrame DEF Installs
      <3>4. KeyInv'
        BY <1>0, <2>1, <3>1, <3>2, <3>3, Places, KeyQuiet
      <3> QED
        BY <1>0, <2>1, <3>1, <3>2, <3>4 DEF HookInv, TypeOK, ArmedFires
    <2>3. CASE ~installing
      <3>1. Goto(t, "recheck")
        BY <1>5, <2>3 DEF Cas
      <3>2. /\ stack[t] = <<"cas">> /\ stack'[t] = <<"recheck">> /\ \A u \in Thread \ {t} : stack'[u] = stack[u]
            /\ StackInv' /\ stack' \in [Thread -> Seq(Labels)]
        BY <1>l, <2>1, <3>1, GotoFacts
      <3>3. <<"cas">> # <<"publish">> /\ <<"recheck">> # <<"publish">> /\ <<"recheck">> \notin Creating
        BY OneFrame, TwoFrames DEF Creating
      <3>4. \A u \in Thread : Installer(u)' <=> u = t
        BY <1>0, <2>3, <3>2, Places DEF KeyInv, Installer, Installs
      <3>5. \A u \in Thread : /\ stack'[u] = <<"publish">> <=> stack[u] = <<"publish">>
                              /\ stack'[u] \in Creating => ~key'
        BY <1>0, <2>1, <3>2, <3>3 DEF KeyInv
      <3>6. KeyInv'
        BY <1>0, <2>1, <3>4, <3>5 DEF KeyInv
      <3> QED
        BY <1>0, <2>1, <3>2, <3>6 DEF HookInv, TypeOK, ArmedFires
    <2> QED
      BY <2>2, <2>3
  <1>6. ASSUME NEW t \in Thread, Spin(t)
        PROVE  HookInv'
    <2>1. In(t, "spin") /\ UNCHANGED <<platform, key, created, installing, value, armed, tls>>
      BY <1>6 DEF Spin
    <2>2. CASE UNCHANGED stack
      BY <1>0, <2>1, <2>2 DEF HookInv, TypeOK, StackInv, KeyInv, Installer, ArmedFires
    <2>3. CASE Goto(t, "check")
      <3>1. /\ stack[t] = <<"spin">> /\ stack'[t] = <<"check">> /\ \A u \in Thread \ {t} : stack'[u] = stack[u]
            /\ StackInv' /\ stack' \in [Thread -> Seq(Labels)]
        BY <1>l, <2>1, <2>3, GotoFacts
      <3>2. <<"spin">> # <<"publish">> /\ <<"check">> # <<"publish">> /\ <<"check">> \notin Creating
        BY Places, OneFrame DEF Installs
      <3>3. KeyInv'
        BY <1>0, <2>1, <3>1, <3>2, Places, KeyQuiet
      <3> QED
        BY <1>0, <2>1, <3>1, <3>3 DEF HookInv, TypeOK, ArmedFires
    <2> QED
      BY <1>6, <2>2, <2>3 DEF Spin
  <1>7. ASSUME NEW t \in Thread, Recheck(t)
        PROVE  HookInv'
    <2>1. PICK m \in {"release", "create"} : Goto(t, m) /\ (m = "create" => ~key)
      BY <1>7 DEF Recheck
    <2>2. In(t, "recheck") /\ UNCHANGED <<platform, key, created, installing, value, armed, tls>>
      BY <1>7 DEF Recheck
    <2>3. /\ stack[t] = <<"recheck">> /\ stack'[t] = <<m>> /\ \A u \in Thread \ {t} : stack'[u] = stack[u]
          /\ StackInv' /\ stack' \in [Thread -> Seq(Labels)]
      BY <1>l, <2>1, <2>2, GotoFacts
    <2>4. <<"recheck">> # <<"publish">> /\ <<m>> # <<"publish">> /\ (<<m>> \in Creating => ~key)
      BY <2>1, Places, OneFrame DEF Installs, Creating
    <2>5. KeyInv'
      BY <1>0, <2>1, <2>2, <2>3, <2>4, Places, KeyQuiet
    <2> QED
      BY <1>0, <2>2, <2>3, <2>5 DEF HookInv, TypeOK, ArmedFires
  <1>8. ASSUME NEW t \in Thread, CreateAllocates(t)
        PROVE  HookInv'
    <2>1. In(t, "create") /\ UNCHANGED <<platform, key, created, installing, value, armed>>
      BY <1>8 DEF CreateAllocates
    <2>2. stack[t] = <<"create">>
      BY <1>0, <2>1, StackAt
    <2>3. tls[t] = "active"
      BY <1>0, <2>2, OneFrame DEF StackInv
    <2>4. UNCHANGED tls /\ stack' = [stack EXCEPT ![t] = <<"fallback">> \o (<<"answer">> \o Tail(stack[t]))]
      BY <1>8, <2>3 DEF CreateAllocates, With
    <2>5. stack' = [stack EXCEPT ![t] = <<"fallback", "answer">>]
      <3>1. <<"answer">> \o Tail(stack[t]) = <<"answer">>
        BY <2>2, OneFrame
      <3>2. <<"fallback">> \o <<"answer">> = <<"fallback", "answer">>
        BY TwoFrames
      <3> QED
        BY <2>4, <3>1, <3>2
    <2>6. tls' \in [Thread -> {"free", "active", "retired"}]
      BY <1>0, <2>4 DEF TypeOK
    <2>7. <<"fallback", "answer">> # <<"fallback">> /\ <<"fallback", "answer">> # <<>>
      BY OneFrame, TwoFrames
    <2>8. /\ StackInv' /\ stack' \in [Thread -> Seq(Labels)] /\ stack'[t] = <<"fallback", "answer">>
          /\ \A u \in Thread \ {t} : stack'[u] = stack[u]
      BY <2>3, <2>4, <2>5, <2>6, <2>7, StackMove
    <2>9. <<"fallback", "answer">> # <<"publish">> /\ <<"create">> # <<"publish">> /\ ~key
      BY <1>0, <2>2, OneFrame, TwoFrames DEF KeyInv, Creating
    <2>10. KeyInv'
      BY <1>0, <2>1, <2>2, <2>8, <2>9, Places, KeyQuiet
    <2> QED
      BY <1>0, <2>1, <2>4, <2>8, <2>10 DEF HookInv, TypeOK, ArmedFires
  <1>9. ASSUME NEW t \in Thread, CreateAnswers(t)
        PROVE  HookInv'
    <2>1. PICK l \in {"create", "answer"} : In(t, l)
      BY <1>9 DEF CreateAnswers
    <2>2. UNCHANGED <<platform, key, installing, value, armed, tls>>
      BY <1>9 DEF CreateAnswers
    <2>3. stack[t] = <<l>> /\ <<l>> \in Creating /\ ~key
      BY <1>0, <2>1, StackAt DEF Creating, KeyInv
    <2>4. <<l>> # <<"publish">> /\ Installs(<<l>>) /\ Installer(t)
      BY <2>1, <2>3, Places, OneFrame DEF Installer, Installs
    <2>5. CASE created' = created + 1 /\ Goto(t, "publish")
      <3>1. /\ stack'[t] = <<"publish">> /\ \A u \in Thread \ {t} : stack'[u] = stack[u]
            /\ StackInv' /\ stack' \in [Thread -> Seq(Labels)]
        BY <1>l, <2>1, <2>2, <2>5, GotoFacts
      <3>2. \A u \in Thread : Installer(u)' <=> Installer(u)
        BY <2>4, <3>1, Places DEF Installer, Installs
      <3>3. <<"publish">> \notin Creating
        BY OneFrame, TwoFrames DEF Creating
      <3>4. \A u \in Thread : stack[u] # <<"publish">>
        BY <1>0, <2>3, <2>4, Places DEF KeyInv, Installer, Installs
      <3>5. created' = 1
        BY <1>0, <2>3, <2>5, <3>4 DEF KeyInv
      <3>6. \A u \in Thread : stack'[u] \in Creating => ~key'
        BY <2>2, <2>3
      <3>7. KeyInv'
        BY <1>0, <2>2, <3>1, <3>2, <3>5, <3>6 DEF KeyInv
      <3> QED
        BY <1>0, <2>2, <3>1, <3>5, <3>7 DEF HookInv, TypeOK, ArmedFires
    <2>6. CASE Goto(t, "give_up") /\ UNCHANGED created
      <3>1. /\ stack'[t] = <<"give_up">> /\ \A u \in Thread \ {t} : stack'[u] = stack[u]
            /\ StackInv' /\ stack' \in [Thread -> Seq(Labels)]
        BY <1>l, <2>1, <2>2, <2>6, GotoFacts
      <3>2. <<"give_up">> # <<"publish">>
        BY OneFrame
      <3>3. KeyInv'
        BY <1>0, <2>2, <2>3, <2>4, <2>6, <3>1, <3>2, Places, KeyQuiet
      <3> QED
        BY <1>0, <2>2, <2>6, <3>1, <3>3 DEF HookInv, TypeOK, ArmedFires
    <2> QED
      BY <1>9, <2>5, <2>6 DEF CreateAnswers
  <1>10. ASSUME NEW t \in Thread, Publish(t)
        PROVE  HookInv'
    <2>1. /\ In(t, "publish") /\ key' = TRUE /\ Goto(t, "release")
          /\ UNCHANGED <<platform, created, installing, value, armed, tls>>
      BY <1>10 DEF Publish
    <2>2. /\ stack[t] = <<"publish">> /\ stack'[t] = <<"release">> /\ \A u \in Thread \ {t} : stack'[u] = stack[u]
          /\ StackInv' /\ stack' \in [Thread -> Seq(Labels)]
      BY <1>l, <2>1, GotoFacts
    <2>3. \A u \in Thread : Installer(u)' <=> Installer(u)
      BY <2>2, Places DEF Installer, Installs
    <2>4. \A u \in Thread : Installer(u) => u = t
      BY <1>0, <2>2, Places DEF KeyInv, Installer, Installs
    <2>5. \A u \in Thread : stack'[u] \notin Creating
      BY <2>2, <2>4, OneFrame, TwoFrames DEF Installer, Creating
    <2>6. created' = 1
      BY <1>0, <2>1, <2>2 DEF KeyInv
    <2>7. KeyInv'
      BY <1>0, <2>1, <2>3, <2>5, <2>6 DEF KeyInv
    <2> QED
      BY <1>0, <2>1, <2>2, <2>7 DEF HookInv, TypeOK, ArmedFires
  <1>11. ASSUME NEW t \in Thread, Release(t)
        PROVE  HookInv'
    <2>1. installing' = FALSE /\ UNCHANGED <<platform, key, created, value, armed, tls>>
      BY <1>11 DEF Release
    <2>2. PICK l \in {"release", "give_up"}, m \in {"set", "work"} : In(t, l) /\ Goto(t, m)
      BY <1>11 DEF Release
    <2>3. /\ stack[t] = <<l>> /\ stack'[t] = <<m>> /\ \A u \in Thread \ {t} : stack'[u] = stack[u]
          /\ StackInv' /\ stack' \in [Thread -> Seq(Labels)]
      BY <1>l, <2>1, <2>2, GotoFacts
    <2>4. \A u \in Thread : Installer(u) => u = t
      BY <1>0, <2>2, <2>3, Places DEF KeyInv, Installer, Installs
    <2>5. ~Installs(<<m>>)
      BY <2>2, Places
    <2>6. \A u \in Thread : ~Installer(u)'
      BY <2>3, <2>4, <2>5 DEF Installer, Installs
    <2>7. \A u \in Thread : stack'[u] # <<"publish">> /\ stack'[u] \notin Creating
      BY <2>6, Places DEF Installer, Installs
    <2>8. \A u \in Thread : stack[u] # <<"publish">>
      <3>1. <<l>> # <<"publish">> /\ <<m>> # <<"publish">>
        BY <2>2, OneFrame
      <3> QED
        BY <2>3, <2>7, <3>1
    <2>9. KeyInv'
      BY <1>0, <2>1, <2>6, <2>7, <2>8 DEF KeyInv
    <2> QED
      BY <1>0, <2>1, <2>3, <2>9 DEF HookInv, TypeOK, ArmedFires
  <1>12. ASSUME NEW t \in Thread, Set(t)
        PROVE  HookInv'
    <2>1. In(t, "set") /\ Goto(t, "work") /\ UNCHANGED <<platform, key, created, installing, tls>>
      BY <1>12 DEF Set
    <2>2. PICK ok \in BOOLEAN :
            /\ value' = [value EXCEPT ![t] = value[t] \/ ok]
            /\ armed' = [armed EXCEPT ![t] = IF platform = "unix" THEN ok ELSE ~ok]
      BY <1>12 DEF Set
    <2>3. /\ stack[t] = <<"set">> /\ stack'[t] = <<"work">> /\ \A u \in Thread \ {t} : stack'[u] = stack[u]
          /\ StackInv' /\ stack' \in [Thread -> Seq(Labels)]
      BY <1>l, <2>1, GotoFacts
    <2>4. <<"set">> # <<"publish">> /\ <<"work">> # <<"publish">> /\ <<"work">> \notin Creating
      BY Places, OneFrame DEF Installs
    <2>5. KeyInv'
      BY <1>0, <2>1, <2>3, <2>4, Places, KeyQuiet
    <2>6. value' \in [Thread -> BOOLEAN] /\ armed' \in [Thread -> BOOLEAN]
      BY <1>0, <2>2 DEF TypeOK
    <2>7. ArmedFires'
      BY <1>0, <2>1, <2>2 DEF TypeOK, ArmedFires
    <2> QED
      BY <1>0, <2>1, <2>3, <2>5, <2>6, <2>7 DEF HookInv, TypeOK
  <1>13. CASE UNCHANGED vars
    BY <1>0, <1>13 DEF vars, HookInv, TypeOK, StackInv, KeyInv, Installer, ArmedFires
  <1> QED
    BY <1>1, <1>2, <1>3, <1>4, <1>5, <1>6, <1>7, <1>8, <1>9, <1>10, <1>11, <1>12, <1>13 DEF Next, Continue

-----------------------------------------------------------------------------
(* The theorems. *)

\* The initial state satisfies the invariant.
LEMMA InitSafe == Init => HookInv
  <1> SUFFICES ASSUME Init PROVE HookInv
    OBVIOUS
  <1>1. TypeOK
    <2>1. <<>> \in Seq(Labels)
      OBVIOUS
    <2> QED
      BY <2>1 DEF Init, TypeOK
  <1>2. \A t \in Thread : ~Installer(t) /\ stack[t] \notin Creating /\ stack[t] # <<"publish">>
    BY Places DEF Init, Installer, Installs
  <1>3. KeyInv
    BY <1>2 DEF Init, KeyInv
  <1> QED
    BY <1>1, <1>3 DEF Init, HookInv, StackInv, ArmedFires

\* The inductive invariant holds in every reachable state, for any threads.
THEOREM Safety == Spec => []HookInv
  BY InitSafe, StepSafe, PTL DEF Spec

\* INSTALLING is held exactly while one thread installs the hook, through an
\* allocation of the system call included, and one key is created for the
\* process.
THEOREM KeyCreatedOnce == Spec => []OneInstaller
  <1>1. HookInv => OneInstaller
    <2> SUFFICES ASSUME HookInv PROVE OneInstaller
      OBVIOUS
    <2> DEFINE places == {"recheck", "create", "answer", "publish", "release", "give_up"}
    <2>1. ASSUME NEW t \in Thread
          PROVE  (\E i \in DOMAIN stack[t] : stack[t][i] \in places) <=> Installer(t)
      <3>1. CASE stack[t] = <<>>
        BY <3>1, Places DEF Installer, Installs
      <3>2. CASE stack[t] = <<"fallback", "answer">>
        BY <3>2, TwoFrames DEF Installer, Creating
      <3>3. ASSUME NEW l \in Labels, stack[t] = <<l>>
            PROVE  (\E i \in DOMAIN stack[t] : stack[t][i] \in places) <=> Installer(t)
        <4>1. (\E i \in DOMAIN stack[t] : stack[t][i] \in places) <=> l \in places
          BY <3>3, OneFrame
        <4>2. Installer(t) <=> l \in places
          BY <3>3, OneFrame, TwoFrames DEF Installer, Creating
        <4> QED
          BY <4>1, <4>2
      <3> QED
        BY <3>1, <3>2, <3>3 DEF HookInv, StackInv
    <2>2. KeyInv
      BY DEF HookInv
    <2> DEFINE installers == {t \in Thread : \E i \in DOMAIN stack[t] : stack[t][i] \in places}
    <2>3. \A t \in Thread : t \in installers <=> Installer(t)
      BY <2>1
    <2> HIDE DEF installers
    <2>4. installers \subseteq Thread
      BY DEF installers
    <2>5. installing <=> installers # {}
      BY <2>2, <2>3, <2>4 DEF KeyInv
    <2>6. \A t, u \in installers : t = u
      BY <2>2, <2>3, <2>4 DEF KeyInv
    <2>7. key => created = 1
      BY <2>2 DEF KeyInv
    <2> QED
      BY <2>5, <2>6, <2>7 DEF installers, OneInstaller
  <1> QED
    BY Safety, <1>1, PTL

\* On unix a thread that counts as armed has its exit hook armed until it exits.
THEOREM ArmedMeansArmed == Spec => []ArmedFires
  <1>1. HookInv => ArmedFires
    BY DEF HookInv
  <1> QED
    BY Safety, <1>1, PTL

=============================================================================
