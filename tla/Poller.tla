------------------------------- MODULE Poller -------------------------------
(***************************************************************************)
(* Poller::poll (poller.cc) for a loop that calls it until it says Exit.   *)
(* A user defines which actions are interested and what the callbacks do.  *)
(* The interest is looked up before the system call, the readiness by it;  *)
(* the callbacks then run one after the other on what was found, while the *)
(* outside world goes on.  A poll that times out changes nothing: the loop *)
(* calls it again, with the same events.                                   *)
(***************************************************************************)
EXTENDS Naturals, FiniteSets

CONSTANT Actions    \* 1..n, in the order of add_action

VARIABLES poller,   \* active: the actions not cancelled; events: what poll is
                    \* asked for; ready and failed: what it found, as far as
                    \* it is not handled; polling: the call has not returned
          outcome   \* how the loop ended, "running" before

PollerInit ==
    /\ poller = [active |-> Actions, events |-> {}, ready |-> {},
                 failed |-> {}, polling |-> FALSE]
    /\ outcome = "running"

InCallbacks == poller.ready \cup poller.failed # {}

\* poll() looks up who is interested ...
Poll(interested) ==
    /\ outcome = "running" /\ ~poller.polling /\ ~InCallbacks
    /\ LET events == poller.active \cap interested IN
       \/ /\ events = {}
          /\ outcome' = "exit"
          /\ UNCHANGED poller
       \/ /\ events # {}
          /\ poller' = [poller EXCEPT !.events = events, !.polling = TRUE]
          /\ UNCHANGED outcome

\* ... and waits for one of them, or for an error of any descriptor.
PollReturns(ready, failed) ==
    /\ outcome = "running" /\ poller.polling
    /\ (poller.events \cap ready) \cup failed # {}
    /\ poller' = [poller EXCEPT !.ready = poller.events \cap ready,
                                !.failed = failed, !.polling = FALSE]
    /\ UNCHANGED outcome

\* i is the action the loop over pollfds_ comes to next.
Reaches(i) ==
    /\ outcome = "running" /\ ~poller.polling
    /\ i \in poller.ready \cup poller.failed
    /\ \A j \in poller.ready \cup poller.failed : i <= j

\* An error or a hang-up ends the loop at once, whatever else is ready.
PollFails(i) ==
    /\ Reaches(i) /\ i \in poller.failed
    /\ outcome' = "error"
    /\ UNCHANGED poller

\* The callback of i is run; it cancels the action or not.
Callback(i, cancel) ==
    /\ Reaches(i) /\ i \notin poller.failed
    /\ poller' = [poller EXCEPT !.ready = @ \ {i},
                                !.active = IF cancel THEN @ \ {i} ELSE @]
    /\ UNCHANGED outcome

\* A blocking system call holds the callback, and the loop with it.
CallbackWaits(i) ==
    /\ Reaches(i) /\ i \notin poller.failed
    /\ UNCHANGED <<poller, outcome>>

\* The callback throws an Exception, which the thread catches around its loop.
CallbackThrows(i) ==
    /\ Reaches(i) /\ i \notin poller.failed
    /\ outcome' = "exception"
    /\ UNCHANGED poller
=============================================================================
