------------------------------ MODULE ExitHook ------------------------------
(***************************************************************************)
(* Installing the thread-exit hook (thread_exit.rs, ensure_hook) from the  *)
(* slow paths of a thread's cache (cache.rs, arm_exit_hook), under the     *)
(* re-entrancy guard of the thread-local cache (lib.rs, tls::with).  The   *)
(* system call that creates the process-wide key may itself allocate.      *)
(*                                                                         *)
(* A thread's stack holds the calls it is inside, innermost first, each as *)
(* the place it has reached.                                               *)
(***************************************************************************)
EXTENDS Integers, Sequences

CONSTANTS
  Thread,
  MayFail     \* whether the system may refuse a key or a value

ASSUME ExitHookAssumption == MayFail \in BOOLEAN

VARIABLES
  platform,    \* the backend in use: "unix" or "windows"
  key,         \* whether HOOK_KEY (HOOK_SLOT) is set
  created,     \* keys the system was asked for and gave
  installing,  \* INSTALLING
  value,       \* whether the thread's value for the key is non-null
  armed,       \* ThreadCache.exit_armed
  tls,         \* TLS_FREE, TLS_ACTIVE, TLS_RETIRED
  stack

vars == <<platform, key, created, installing, value, armed, tls, stack>>

Init ==
  /\ platform \in {"unix", "windows"}
  /\ key = FALSE /\ created = 0 /\ installing = FALSE
  /\ value = [t \in Thread |-> FALSE] /\ armed = [t \in Thread |-> FALSE]
  /\ tls = [t \in Thread |-> "free"] /\ stack = [t \in Thread |-> <<>>]

In(t, label) == stack[t] # <<>> /\ Head(stack[t]) = label
Goto(t, label) == stack' = [stack EXCEPT ![t] = <<label>> \o Tail(@)]
Return(t) == stack' = [stack EXCEPT ![t] = Tail(@)]

-----------------------------------------------------------------------------
\* Mutant of With: the guard is not looked at.
WithUnguarded(t, frames) ==
  /\ tls' = [tls EXCEPT ![t] = "active"]
  /\ stack' = [stack EXCEPT ![t] = <<IF armed[t] THEN "work" ELSE "check">> \o frames]

\* tls::with around an operation that arms the hook, called with `frames` on
\* the stack: with the cache in use or retired, the fallback serves, and arms
\* nothing.
With(t, frames) ==
  \/ /\ tls[t] = "free"
     /\ tls' = [tls EXCEPT ![t] = "active"]
     /\ stack' = [stack EXCEPT ![t] = <<IF armed[t] THEN "work" ELSE "check">> \o frames]
  \/ /\ tls[t] # "free"
     /\ stack' = [stack EXCEPT ![t] = <<"fallback">> \o frames]
     /\ UNCHANGED tls

\* A call of the program.
Enter(t) ==
  /\ stack[t] = <<>>
  /\ With(t, <<>>)
  /\ UNCHANGED <<platform, key, created, installing, value, armed>>

\* The end of the call: the cache is free again, or was never touched.
Leave(t) ==
  /\ \/ In(t, "work") /\ tls' = [tls EXCEPT ![t] = "free"]
     \/ In(t, "fallback") /\ UNCHANGED tls
  /\ Return(t)
  /\ UNCHANGED <<platform, key, created, installing, value, armed>>

\* The loop of ensure_hook: look for the key, else try to be the installer.
Check(t) ==
  /\ In(t, "check")
  /\ Goto(t, IF key THEN "set" ELSE "cas")
  /\ UNCHANGED <<platform, key, created, installing, value, armed, tls>>

Cas(t) ==
  /\ In(t, "cas")
  /\ installing' = TRUE
  /\ Goto(t, IF installing THEN "spin" ELSE "recheck")
  /\ UNCHANGED <<platform, key, created, value, armed, tls>>

Spin(t) ==
  /\ In(t, "spin")
  /\ IF installing THEN UNCHANGED stack ELSE Goto(t, "check")
  /\ UNCHANGED <<platform, key, created, installing, value, armed, tls>>

\* Mutant of Recheck: the key is not looked for again under INSTALLING.
RecheckNot(t) ==
  /\ In(t, "recheck")
  /\ Goto(t, "create")
  /\ UNCHANGED <<platform, key, created, installing, value, armed, tls>>

Recheck(t) ==
  /\ In(t, "recheck")
  /\ Goto(t, IF key THEN "release" ELSE "create")
  /\ UNCHANGED <<platform, key, created, installing, value, armed, tls>>

\* pthread_key_create, FlsAlloc: it may allocate before it answers.
CreateAllocates(t) ==
  /\ In(t, "create")
  /\ With(t, <<"answer">> \o Tail(stack[t]))
  /\ UNCHANGED <<platform, key, created, installing, value, armed>>

CreateAnswers(t) ==
  /\ In(t, "create") \/ In(t, "answer")
  /\ \/ created' = created + 1 /\ Goto(t, "publish")
     \/ MayFail /\ Goto(t, "give_up") /\ UNCHANGED created
  /\ UNCHANGED <<platform, key, installing, value, armed, tls>>

\* HOOK_KEY.set; were it set already, the new key would be used all the same.
Publish(t) ==
  /\ In(t, "publish")
  /\ key' = TRUE
  /\ Goto(t, "release")
  /\ UNCHANGED <<platform, created, installing, value, armed, tls>>

\* INSTALLING is cleared; without a key the thread stays unarmed.
Release(t) ==
  /\ installing' = FALSE
  /\ \/ In(t, "release") /\ Goto(t, "set")
     \/ In(t, "give_up") /\ Goto(t, "work")
  /\ UNCHANGED <<platform, key, created, value, armed, tls>>

\* Mutant of Set: the thread counts as armed whatever the system answered.
SetUnchecked(t) ==
  /\ In(t, "set")
  /\ \E ok \in {TRUE} \cup (IF MayFail THEN {FALSE} ELSE {}) :
       value' = [value EXCEPT ![t] = @ \/ ok]
  /\ armed' = [armed EXCEPT ![t] = TRUE]
  /\ Goto(t, "work")
  /\ UNCHANGED <<platform, key, created, installing, tls>>

\* pthread_setspecific answers 0 for success, FlsSetValue for failure; both
\* backends take 0 for success.
Set(t) ==
  /\ In(t, "set")
  /\ \E ok \in {TRUE} \cup (IF MayFail THEN {FALSE} ELSE {}) :
       /\ value' = [value EXCEPT ![t] = @ \/ ok]
       /\ armed' = [armed EXCEPT ![t] = IF platform = "unix" THEN ok ELSE ~ok]
  /\ Goto(t, "work")
  /\ UNCHANGED <<platform, key, created, installing, tls>>

\* The thread exits.  The hook runs if there is a value, clears it, and retires
\* the cache; a thread without it leaves its cache to no one.
Exit(t) ==
  /\ stack[t] = <<>> /\ tls[t] = "free" /\ value[t]
  /\ value' = [value EXCEPT ![t] = FALSE]
  /\ tls' = [tls EXCEPT ![t] = "retired"]
  /\ UNCHANGED <<platform, key, created, installing, armed, stack>>

-----------------------------------------------------------------------------
Continue(t) ==
  \/ Leave(t) \/ Check(t) \/ Cas(t) \/ Spin(t) \/ Recheck(t) \/ CreateAllocates(t)
  \/ CreateAnswers(t) \/ Publish(t) \/ Release(t) \/ Set(t)
Next == \E t \in Thread : Enter(t) \/ Exit(t) \/ Continue(t)

Spec == Init /\ [][Next]_vars
\* A thread inside the allocator keeps running.
FairSpec == Spec /\ \A t \in Thread : WF_vars(Continue(t))

-----------------------------------------------------------------------------
Labels == {"work", "fallback", "check", "cas", "spin", "recheck", "create", "answer",
           "publish", "release", "give_up", "set"}
TypeOK ==
  /\ platform \in {"unix", "windows"}
  /\ key \in BOOLEAN /\ created \in Nat /\ installing \in BOOLEAN
  /\ value \in [Thread -> BOOLEAN] /\ armed \in [Thread -> BOOLEAN]
  /\ tls \in [Thread -> {"free", "active", "retired"}]
  /\ stack \in [Thread -> Seq(Labels)]

\* One key for the process, however many threads race to install it, and
\* INSTALLING is held exactly while one of them is at it.
OneInstaller ==
  LET at == {"recheck", "create", "answer", "publish", "release", "give_up"}
      installers == {t \in Thread : \E i \in DOMAIN stack[t] : stack[t][i] \in at}
  IN  /\ installing <=> installers # {}
      /\ \A t, u \in installers : t = u
      /\ key => created = 1

\* On unix a thread that believes its hook is armed has it armed until it exits,
\* so its cache is not left behind.  On Windows belief and fact are opposite:
\* FlsSetValue answers nonzero for success and is tested like
\* pthread_setspecific, which answers 0.
ArmedFires ==
  platform = "unix" =>
    \A t \in Thread : armed[t] /\ tls[t] # "retired" => value[t]

\* Every call ends, with a libc that allocates in the middle of the install,
\* unless the system refuses keys for ever: no thread waits for itself on
\* INSTALLING.
Refused == \E t \in Thread : In(t, "give_up")
CallReturns ==
  []<>Refused \/ \A t \in Thread : stack[t] # <<>> ~> stack[t] = <<>>

-----------------------------------------------------------------------------
(* The inductive invariant. *)

\* Only the fallback runs inside a call: the cache of the thread is in use.
StackInv ==
  \A t \in Thread :
    /\ stack[t] \in {<<>>, <<"fallback", "answer">>} \cup {<<l>> : l \in Labels}
    /\ tls[t] = "active" <=> stack[t] \notin {<<>>, <<"fallback">>}
    /\ tls[t] = "free" => stack[t] = <<>>

\* The thread that installs, and whether it is yet to create a key.
Creating == {<<"create">>, <<"answer">>, <<"fallback", "answer">>}
Installer(t) ==
  stack[t] \in Creating \cup {<<"recheck">>, <<"publish">>, <<"release">>, <<"give_up">>}

KeyInv ==
  /\ installing <=> \E t \in Thread : Installer(t)
  /\ \A t, u \in Thread : Installer(t) /\ Installer(u) => t = u
  /\ \A t \in Thread : stack[t] \in Creating => ~key
  /\ created = IF key \/ \E t \in Thread : stack[t] = <<"publish">> THEN 1 ELSE 0

HookInv == TypeOK /\ StackInv /\ KeyInv /\ ArmedFires

=============================================================================
