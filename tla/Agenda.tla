-------------------------------- MODULE Agenda --------------------------------
(***************************************************************************)
(* What the event scheduler of Core/CoreTiming.cpp promises to the code    *)
(* that schedules events: an event runs at most once, never before its     *)
(* time, and never before an earlier one; events of one instant run in the *)
(* order they came in; time only goes forward.  What another host thread   *)
(* posts joins the agenda later, in the order it was posted.               *)
(* CoreTiming.tla is the code that implements this specification.          *)
(***************************************************************************)
EXTENDS Integers, SequencesExt

CONSTANTS
    Events,
    Initially,  \* what the agenda starts with
    MaxElapse   \* bound: how far the time moves in one step

VARIABLES
    agenda,     \* [id, due] records in the order they will run, due from now
    posted      \* what was posted and has not joined

vars == <<agenda, posted>>

Init == agenda = Initially /\ posted = <<>>

\* c cycles later every event is c cycles nearer.
Later(list, c) == [i \in DOMAIN list |-> [list[i] EXCEPT !.due = @ - c]]

Without(list, ids) ==
    LET kept == {i \in DOMAIN list : list[i].id \notin ids}
    IN  [k \in 1 .. Cardinality(kept) |->
            list[CHOOSE i \in kept : Cardinality({j \in kept : j <= i}) = k]]

\* new is old with one more event, behind all that are not later.
OneMore(old, new) ==
    \E i \in DOMAIN new :
        /\ new[i].id \in Events
        /\ old = RemoveAt(new, i)
        /\ \A j \in DOMAIN new : (j < i => new[j].due <= new[i].due)
                                 /\ (j > i => new[j].due > new[i].due)

\* new holds the events of all, by time; those of one instant keep their order.
ByTime(all, new) ==
    /\ Len(new) = Len(all)
    /\ \E from \in [DOMAIN new -> DOMAIN all] :
        /\ \A i \in DOMAIN new : new[i] = all[from[i]]
        /\ \A i, j \in DOMAIN new : i < j =>
              new[i].due < new[j].due \/ (new[i].due = new[j].due /\ from[i] < from[j])

\* The program goes on for c cycles, and may have scheduled or withdrawn events.
Elapse(c) == agenda' = Later(agenda, c) /\ posted' = Later(posted, c)

Schedule(c) == OneMore(Later(agenda, c), agenda') /\ posted' = Later(posted, c)

Withdraw(ids, c) ==
    /\ agenda' = Later(Without(agenda, ids), c)
    /\ posted' \in {Later(posted, c), Later(Without(posted, ids), c)}

\* The first event runs: its time must have come.
Fire ==
    /\ agenda # <<>> /\ agenda[1].due <= 0
    /\ agenda' = Tail(agenda)
    /\ UNCHANGED posted

\* Another host thread posts an event.  It cannot know the time exactly.
Post ==
    /\ Len(posted') = Len(posted) + 1 /\ Front(posted') = posted
    /\ Last(posted').id \in Events
    /\ UNCHANGED agenda

WithdrawPosted(ids) == posted' = Without(posted, ids) /\ UNCHANGED agenda

\* What was posted joins the agenda, behind what is there.
Accept == posted' = <<>> /\ ByTime(agenda \o posted, agenda')

Next ==
    \/ Fire \/ Post \/ Accept
    \/ \E c \in 0 .. MaxElapse : Elapse(c) \/ Schedule(c)
    \/ \E ids \in SUBSET Events :
        WithdrawPosted(ids) \/ \E c \in 0 .. MaxElapse : Withdraw(ids, c)

Spec == Init /\ [][Next]_vars
=============================================================================
