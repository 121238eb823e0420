------------------------- MODULE ProcessSupervisor -------------------------
(***************************************************************************)
(* A process that starts children and waits on them: PacketShell's main    *)
(* process and its uplink process (packetshell.cc), with the ChildProcess  *)
(* objects (child_process.cc), the signalfd (signalfd.cc) and              *)
(* handle_signal (util.cc) they use.  A child may exit, die on a signal,   *)
(* be stopped and continued at any time, and the supervisor may be sent    *)
(* SIGHUP or SIGTERM (both "HUP" here), SIGCONT and a stop signal.         *)
(*                                                                         *)
(* Signals behave as in Linux: a SIGCHLD that is not blocked is ignored,   *)
(* one that is pending already absorbs the next and names only the first   *)
(* child, the lowest number is read first, and a continued child has       *)
(* nothing left to report of its stop.                                     *)
(***************************************************************************)
EXTENDS Naturals, FiniteSets

CONSTANTS N,          \* the number of children, in the order they are started
          MaxStops    \* bound of the model: the stop signals sent

ASSUME ChildrenAssumption == N \in Nat \ {0} /\ MaxStops \in Nat

Children == 1..N

VARIABLES
    life,       \* what each child really does
    change,     \* what waitid() would report of a child that lives
    reaped,     \* the dead children that waitid() has reported
    hup,        \* the children that were sent SIGHUP
    known,      \* the ChildProcess objects: running_, terminated_
    blocked,    \* the signal mask is set
    pending,    \* the signals pending for the supervisor
    chld_from,  \* the child that the pending SIGCHLD names
    suspended,  \* the supervisor is stopped
    pc, at,     \* what it does, and with which child
    stops,      \* counts the stop signals
    unheard     \* kept by the model: the children whose end no SIGCHLD told,
                \* as it was not blocked, or one that named a child that
                \* lives was pending

childVars == <<life, change, hup>>
vars == <<life, change, reaped, hup, known, blocked, pending, chld_from,
          suspended, pc, at, stops, unheard>>

Dead(c) == life[c] \in {"exited", "killed"}

Init ==
    /\ life = [c \in Children |-> "unborn"]
    /\ change = [c \in Children |-> "none"]
    /\ reaped = {} /\ hup = {}
    /\ known = [c \in Children |-> [running |-> TRUE, terminated |-> FALSE]]
    /\ blocked = FALSE /\ pending = {} /\ chld_from = 0
    /\ suspended = FALSE
    /\ pc = "fork" /\ at = 1
    /\ stops = 0
    /\ unheard = {}

\* A SIGCHLD for each child of the set cs, in any order.
Notify(cs) ==
    \/ /\ blocked /\ "CHLD" \notin pending /\ cs # {}
       /\ pending' = pending \cup {"CHLD"}
       /\ chld_from' \in cs
    \/ /\ ~blocked \/ "CHLD" \in pending \/ cs = {}
       /\ UNCHANGED <<pending, chld_from>>

Over == pc \in {"done", "killed"}
-----------------------------------------------------------------------------
\* The children, and signals from outside.
Dies(c) ==
    /\ ~Over /\ life[c] \in {"running", "stopped"}
    /\ \/ life[c] = "running" /\ life' = [life EXCEPT ![c] = "exited"]
       \/ life' = [life EXCEPT ![c] = "killed"]
    /\ Notify({c})
    /\ unheard' = IF blocked /\ ("CHLD" \in pending /\ chld_from # c
                                    => Dead(chld_from))
                  THEN unheard ELSE unheard \cup {c}
    /\ UNCHANGED <<change, reaped, hup, known, blocked, suspended, pc, at,
                   stops>>

\* A ferry returns from its loop on SIGHUP, other children are killed by it.
DiesOnHup(c) == c \in hup /\ life[c] = "running" /\ Dies(c)

Stops(c) ==
    /\ ~Over /\ life[c] = "running" /\ stops < MaxStops
    /\ life' = [life EXCEPT ![c] = "stopped"]
    /\ change' = [change EXCEPT ![c] = "stopped"]
    /\ stops' = stops + 1
    /\ Notify({c})
    /\ UNCHANGED <<reaped, hup, known, blocked, suspended, pc, at, unheard>>

\* kill( c, SIGCONT ) for each child of cs.
ContinueAll(cs) ==
    LET woken == {c \in cs : life[c] = "stopped"} IN
    /\ life' = [c \in Children |-> IF c \in woken THEN "running" ELSE life[c]]
    /\ change' = [c \in Children |->
                     IF c \in woken THEN "continued" ELSE change[c]]

Continues(c) ==
    /\ ~Over /\ life[c] = "stopped"
    /\ ContinueAll({c})
    /\ Notify({c})
    /\ UNCHANGED <<reaped, hup, known, blocked, suspended, pc, at, stops,
                   unheard>>

SupervisorStopped ==
    /\ ~Over /\ ~suspended /\ stops < MaxStops
    /\ suspended' = TRUE
    /\ stops' = stops + 1
    /\ UNCHANGED <<childVars, reaped, known, blocked, pending, chld_from, pc,
                   at, unheard>>

SupervisorContinued ==
    /\ ~Over /\ suspended
    /\ suspended' = FALSE
    /\ pending' = IF blocked THEN pending \cup {"CONT"} ELSE pending
    /\ UNCHANGED <<childVars, reaped, known, blocked, chld_from, pc, at, stops,
                   unheard>>

\* SIGHUP or SIGTERM: its default action unless it is blocked.
HangUp ==
    /\ ~Over /\ "HUP" \notin pending
    /\ \/ blocked /\ pending' = pending \cup {"HUP"} /\ UNCHANGED pc
       \/ ~blocked /\ pc' = "killed" /\ UNCHANGED pending
    /\ UNCHANGED <<childVars, reaped, known, blocked, chld_from, suspended,
                   at, stops, unheard>>
-----------------------------------------------------------------------------
\* The ChildProcess constructor, once for each child.
StartChild ==
    /\ pc = "fork" /\ ~suspended
    /\ life' = [life EXCEPT ![at] = "running"]
    /\ \/ at < N /\ at' = at + 1 /\ UNCHANGED pc
       \/ at = N /\ pc' = "block" /\ UNCHANGED at
    /\ UNCHANGED <<change, reaped, hup, known, blocked, pending, chld_from,
                   suspended, stops, unheard>>

BlockSignals ==
    /\ pc = "block" /\ ~suspended
    /\ blocked' = TRUE
    /\ pc' = "poll"
    /\ UNCHANGED <<childVars, reaped, known, pending, chld_from, suspended,
                   at, stops, unheard>>

\* The callback of the signalfd: read_signal() and handle_signal().
HandleHup ==
    /\ pc = "poll" /\ ~suspended /\ "HUP" \in pending
    /\ pending' = pending \ {"HUP"}
    /\ pc' = "destroy" /\ at' = 1
    /\ UNCHANGED <<childVars, reaped, known, blocked, chld_from, suspended,
                   stops, unheard>>

HandleChld ==
    /\ pc = "poll" /\ ~suspended /\ "HUP" \notin pending /\ "CHLD" \in pending
    /\ pending' = pending \ {"CHLD"}
    /\ pc' = "wait" /\ at' = chld_from
    /\ UNCHANGED <<childVars, reaped, known, blocked, chld_from, suspended,
                   stops, unheard>>

\* resume() of every child that is known to be stopped.
HandleCont ==
    /\ pc = "poll" /\ ~suspended /\ pending = {"CONT"}
    /\ LET resumed == {c \in Children :
                          ~known[c].running /\ ~known[c].terminated}
           woken   == {c \in resumed : life[c] = "stopped"}
       IN  /\ ContinueAll(resumed)
           /\ \/ woken = {} /\ pending' = {} /\ UNCHANGED chld_from
              \/ woken # {} /\ pending' = {"CHLD"} /\ chld_from' \in woken
    /\ UNCHANGED <<reaped, hup, known, blocked, suspended, pc, at, stops,
                   unheard>>

\* wait() blocks until waitid() has something to report of the child at.
WaitReports ==
    \/ /\ Dead(at)
       /\ reaped' = reaped \cup {at}
       /\ known' = [known EXCEPT ![at] =
                       [running |-> @.running, terminated |-> TRUE]]
       /\ UNCHANGED change
    \/ /\ ~Dead(at) /\ change[at] # "none"
       /\ change' = [change EXCEPT ![at] = "none"]
       /\ known' = [known EXCEPT ![at] =
                       [running |-> change[at] = "continued",
                        terminated |-> @.terminated]]
       /\ UNCHANGED reaped

\* Mutant of WaitInHandler: a child that exits does not end the loop.
WaitInHandlerIgnoresExit ==
    /\ pc = "wait" /\ ~suspended
    /\ WaitReports
    /\ \/ /\ life[at] = "killed"
          /\ pc' = "destroy" /\ at' = 1
          /\ UNCHANGED suspended
       \/ /\ life[at] # "killed"
          /\ pc' = "poll" /\ UNCHANGED at
          /\ suspended' = ~known'[at].running
    /\ UNCHANGED <<life, hup, blocked, pending, chld_from, stops, unheard>>

\* The rest of handle_signal.  A child that is gone ends the loop, by a result
\* or by an Exception; one that stopped stops the supervisor as well.
WaitInHandler ==
    /\ pc = "wait" /\ ~suspended
    /\ WaitReports
    /\ \/ /\ known'[at].terminated
          /\ pc' = "destroy" /\ at' = 1
          /\ UNCHANGED suspended
       \/ /\ ~known'[at].terminated
          /\ pc' = "poll" /\ UNCHANGED at
          /\ suspended' = ~known'[at].running
    /\ UNCHANGED <<life, hup, blocked, pending, chld_from, stops, unheard>>

\* Mutant of Destroy: a stopped child is not resumed before it is signalled.
DestroyWithoutResume ==
    /\ pc = "destroy" /\ ~suspended
    /\ \/ /\ known[at].terminated
          /\ \/ at < N /\ at' = at + 1 /\ UNCHANGED pc
             \/ at = N /\ pc' = "done" /\ UNCHANGED at
          /\ UNCHANGED <<life, change, hup, pending, chld_from>>
       \/ /\ ~known[at].terminated
          /\ hup' = hup \cup {at}
          /\ pc' = "destroy_wait"
          /\ UNCHANGED <<life, change, pending, chld_from, at>>
    /\ UNCHANGED <<reaped, known, blocked, suspended, stops, unheard>>

\* ~ChildProcess, for the children in their order: until the child is known to
\* be gone, it is resumed, signalled ...
Destroy ==
    /\ pc = "destroy" /\ ~suspended
    /\ \/ /\ known[at].terminated
          /\ \/ at < N /\ at' = at + 1 /\ UNCHANGED pc
             \/ at = N /\ pc' = "done" /\ UNCHANGED at
          /\ UNCHANGED <<life, change, hup, pending, chld_from>>
       \/ /\ ~known[at].terminated
          /\ ContinueAll(IF known[at].running THEN {} ELSE {at})
          /\ Notify(IF known[at].running \/ life[at] # "stopped"
                    THEN {} ELSE {at})
          /\ hup' = hup \cup {at}
          /\ pc' = "destroy_wait" /\ UNCHANGED at
    /\ UNCHANGED <<reaped, known, blocked, suspended, stops, unheard>>

\* Mutant of DestroyWait: any report will do.
DestroyWaitOnce ==
    /\ pc = "destroy_wait" /\ ~suspended
    /\ WaitReports
    /\ \/ at < N /\ at' = at + 1 /\ pc' = "destroy"
       \/ at = N /\ pc' = "done" /\ UNCHANGED at
    /\ UNCHANGED <<life, hup, blocked, pending, chld_from, suspended, stops,
                   unheard>>

\* ... and waited for.
DestroyWait ==
    /\ pc = "destroy_wait" /\ ~suspended
    /\ WaitReports
    /\ pc' = "destroy"
    /\ UNCHANGED <<life, hup, blocked, pending, chld_from, suspended, at, stops,
                   unheard>>

Supervise ==
    \/ StartChild \/ BlockSignals
    \/ HandleHup \/ HandleChld \/ HandleCont \/ WaitInHandler
    \/ Destroy \/ DestroyWait

Next ==
    \/ \E c \in Children : Dies(c) \/ Stops(c) \/ Continues(c)
    \/ SupervisorStopped \/ SupervisorContinued \/ HangUp
    \/ Supervise

\* Processes are scheduled, a stopped supervisor is continued some time, and a
\* child that has SIGHUP pending dies when it runs.
Fairness ==
    /\ WF_vars(Supervise)
    /\ WF_vars(SupervisorContinued)
    /\ \A c \in Children : WF_vars(DiesOnHup(c))

Spec == Init /\ [][Next]_vars /\ Fairness
-----------------------------------------------------------------------------
\* A supervisor that ends by itself has seen all of its children end, whatever
\* they were doing when their destructors ran.
LeavesNoChild == pc = "done" => reaped = Children

\* Once a child's end, SIGHUP or SIGTERM has ended the loop, the destructors
\* get every child to end, stopped ones included, and the supervisor ends.
TeardownEnds == pc = "destroy" ~> pc = "done"

\* A child has ended and a SIGCHLD told of it, or SIGHUP has arrived.
EventSignalled ==
    \/ \E c \in Children : Dead(c) /\ c \notin unheard
    \/ "HUP" \in pending

\* The supervisor waits for a child that lives and has nothing to report: a
\* report it was told of twice, as of a stop and a continuation, came once.
BlockedInWait == pc = "wait" /\ ~Dead(at) /\ change[at] = "none"

\* An event that a signal tells of, the end of a child or SIGHUP, ends the
\* supervisor, although several SIGCHLDs become one, wait() may block and the
\* supervisor may be stopped.  It can fail in one way only: after a child was
\* stopped and continued, the supervisor stays in wait() of a child that lives,
\* where it reads no signal.
WatchedEventsEndTheLoop ==
    [](EventSignalled => <>(pc = "done" \/ [](BlockedInWait /\ stops > 0)))

\* "wait for either child to finish": when a child ends, the wait ends.
EitherChildEndsTheWait ==
    \A c \in Children : Dead(c) ~> Over
=============================================================================
