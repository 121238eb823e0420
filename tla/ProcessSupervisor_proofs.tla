---------------------- MODULE ProcessSupervisor_proofs ----------------------
(***************************************************************************)
(* A supervisor that ends leaves no child behind, for every number of      *)
(* children.  The invariant follows the destructors: those of the children *)
(* before at have run, each until its terminated_ was set, and only a      *)
(* waitid() that reported the end of the child sets it.                    *)
(***************************************************************************)
EXTENDS ProcessSupervisor, TLAPS

\* The ChildProcess objects, and the child that the supervisor is busy with.
ObjectsOK ==
    /\ known \in [Children -> [running : BOOLEAN, terminated : BOOLEAN]]
    /\ at \in Children
    /\ pending \subseteq {"CHLD", "CONT", "HUP"}
    /\ "CHLD" \in pending => chld_from \in Children
    /\ reaped \subseteq Children

\* A child is only known to have terminated when waitid() reported its end.
KnownIsReaped == \A c \in Children : known[c].terminated => c \in reaped

\* The destructors that have run.
Destroyed ==
    /\ pc \in {"destroy", "destroy_wait"} =>
          \A c \in Children : c < at => c \in reaped
    /\ pc = "done" => Children \subseteq reaped

IInv == ObjectsOK /\ KnownIsReaped /\ Destroyed

\* The report of waitid() keeps the objects right.
LEMMA WaitReportsLemma ==
    ASSUME ObjectsOK, KnownIsReaped, WaitReports
    PROVE  /\ known' \in [Children -> [running : BOOLEAN, terminated : BOOLEAN]]
           /\ \A c \in Children : known'[c].terminated => c \in reaped'
           /\ reaped \subseteq reaped' /\ reaped' \subseteq Children
<1>1. CASE Dead(at) /\ reaped' = reaped \cup {at}
           /\ known' = [known EXCEPT ![at] =
                           [running |-> @.running, terminated |-> TRUE]]
  BY <1>1 DEF ObjectsOK, KnownIsReaped
<1>2. CASE /\ known' = [known EXCEPT ![at] =
                           [running |-> change[at] = "continued",
                            terminated |-> @.terminated]]
           /\ UNCHANGED reaped
  <2>1. (change[at] = "continued") \in BOOLEAN
    OBVIOUS
  <2>2. known[at].terminated \in BOOLEAN
    BY DEF ObjectsOK
  <2>3. [running |-> change[at] = "continued",
         terminated |-> known[at].terminated]
            \in [running : BOOLEAN, terminated : BOOLEAN]
    BY <2>1, <2>2
  <2>4. known' \in [Children -> [running : BOOLEAN, terminated : BOOLEAN]]
    BY <1>2, <2>3 DEF ObjectsOK
  <2>5. \A c \in Children : known'[c].terminated = known[c].terminated
    BY <1>2 DEF ObjectsOK
  <2> QED
    BY <1>2, <2>4, <2>5 DEF KnownIsReaped, ObjectsOK
<1> QED
  BY <1>1, <1>2 DEF WaitReports

\* A SIGCHLD names one of the children it was sent for.
LEMMA NotifyLemma ==
    ASSUME ObjectsOK, NEW cs \in SUBSET Children, Notify(cs)
    PROVE  /\ pending' \subseteq {"CHLD", "CONT", "HUP"}
           /\ "CHLD" \in pending' => chld_from' \in Children
BY DEF ObjectsOK, Notify

LEMMA InitLemma == Init => IInv
BY ChildrenAssumption
DEF Init, IInv, ObjectsOK, KnownIsReaped, Destroyed, Children

LEMMA NextLemma == IInv /\ [Next]_vars => IInv'
<1> SUFFICES ASSUME ObjectsOK, KnownIsReaped, Destroyed, [Next]_vars
             PROVE  ObjectsOK' /\ KnownIsReaped' /\ Destroyed'
  BY DEF IInv
<1> USE ChildrenAssumption
<1>1. CASE \E c \in Children : Dies(c) \/ Stops(c) \/ Continues(c)
  <2> PICK c \in Children : Dies(c) \/ Stops(c) \/ Continues(c)
    BY <1>1
  <2>1. Notify({c}) /\ UNCHANGED <<reaped, known, pc, at>>
    BY DEF Dies, Stops, Continues
  <2>2. ObjectsOK'
    BY <2>1, NotifyLemma DEF ObjectsOK
  <2>3. KnownIsReaped' /\ Destroyed'
    BY <2>1 DEF KnownIsReaped, Destroyed
  <2> QED
    BY <2>2, <2>3
<1>2. CASE SupervisorStopped \/ SupervisorContinued \/ HangUp
  BY <1>2 DEF SupervisorStopped, SupervisorContinued, HangUp, ObjectsOK,
              KnownIsReaped, Destroyed
<1>3. CASE StartChild \/ BlockSignals
  <2>1. at' \in Children
    <3>1. at \in 1..N
      BY DEF ObjectsOK, Children
    <3>2. at' = at \/ (at < N /\ at' = at + 1)
      BY <1>3 DEF StartChild, BlockSignals, childVars
    <3> QED
      BY <3>1, <3>2 DEF Children
  <2>2. pc' \in {"fork", "block", "poll"}
        /\ UNCHANGED <<known, reaped, pending, chld_from>>
    BY <1>3 DEF StartChild, BlockSignals, childVars
  <2> QED
    BY <2>1, <2>2 DEF ObjectsOK, KnownIsReaped, Destroyed
<1>4. CASE HandleHup \/ HandleChld
  <2>1. ObjectsOK'
    <3>1. 1 \in Children
      BY DEF Children
    <3> QED
      BY <1>4, <3>1 DEF HandleHup, HandleChld, ObjectsOK
  <2>2. KnownIsReaped'
    BY <1>4 DEF HandleHup, HandleChld, KnownIsReaped
  <2>3. Destroyed'
    BY <1>4 DEF HandleHup, HandleChld, Destroyed, Children
  <2> QED
    BY <2>1, <2>2, <2>3
<1>5. CASE HandleCont
  BY <1>5 DEF HandleCont, ObjectsOK, KnownIsReaped, Destroyed
<1>6. CASE WaitInHandler
  <2>1. ObjectsOK'
    BY <1>6, WaitReportsLemma DEF WaitInHandler, ObjectsOK, Children
  <2>2. KnownIsReaped'
    BY <1>6, WaitReportsLemma DEF WaitInHandler, KnownIsReaped
  <2>3. Destroyed'
    BY <1>6 DEF WaitInHandler, Destroyed, Children
  <2> QED
    BY <2>1, <2>2, <2>3
<1>7. CASE Destroy
  <2>1. CASE known[at].terminated
    <3>1. at \in reaped
      BY <2>1 DEF KnownIsReaped, ObjectsOK
    <3>2. /\ UNCHANGED <<known, reaped, pending, chld_from>>
          /\ pc = "destroy"
          /\ \/ at < N /\ at' = at + 1 /\ pc' = "destroy"
             \/ at = N /\ at' = at /\ pc' = "done"
      BY <1>7, <2>1 DEF Destroy
    <3>3. at \in 1..N
      BY DEF ObjectsOK, Children
    <3>4. at' \in Children
      BY <3>2, <3>3 DEF Children
    <3>5. Destroyed'
      BY <3>1, <3>2, <3>3 DEF Destroyed, Children
    <3> QED
      BY <3>2, <3>4, <3>5 DEF ObjectsOK, KnownIsReaped
  <2>2. CASE ~known[at].terminated
    <3>1. \E cs \in SUBSET Children : Notify(cs)
      BY <1>7, <2>2 DEF Destroy, ObjectsOK
    <3>2. ObjectsOK'
      BY <1>7, <2>2, <3>1, NotifyLemma DEF Destroy, ObjectsOK
    <3> QED
      BY <1>7, <2>2, <3>2 DEF Destroy, KnownIsReaped, Destroyed
  <2> QED
    BY <2>1, <2>2
<1>8. CASE DestroyWait
  <2>1. ObjectsOK'
    BY <1>8, WaitReportsLemma DEF DestroyWait, ObjectsOK
  <2>2. KnownIsReaped'
    BY <1>8, WaitReportsLemma DEF DestroyWait, KnownIsReaped
  <2>3. Destroyed'
    BY <1>8, WaitReportsLemma DEF DestroyWait, Destroyed
  <2> QED
    BY <2>1, <2>2, <2>3
<1>9. CASE UNCHANGED vars
  BY <1>9 DEF vars, ObjectsOK, KnownIsReaped, Destroyed
<1> QED
  BY <1>1, <1>2, <1>3, <1>4, <1>5, <1>6, <1>7, <1>8, <1>9 DEF Next, Supervise

\* Whatever its children and the signals do, a supervisor whose destructors
\* have run has reaped every child it started (~ChildProcess resumes, signals
\* and waits until waitid() has reported the end).
THEOREM NoChildLeft == Spec => []LeavesNoChild
<1>1. IInv => LeavesNoChild
  BY DEF IInv, ObjectsOK, Destroyed, LeavesNoChild
<1> QED
  BY InitLemma, NextLemma, <1>1, PTL DEF Spec
=============================================================================
