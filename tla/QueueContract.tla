---------------------------- MODULE QueueContract ----------------------------
(***************************************************************************)
(* What the command throttle promises to its callers, without heap,        *)
(* worker, events or burst window: a queue that serves one command at a    *)
(* time and not faster than the interval allows,                           *)
(*   - in the order of arrival among commands of the same priority;        *)
(*   - urgent ones first, except that a command may once see one less      *)
(*     urgent command go before it.                                        *)
(* A command that has left, or has been served, never comes back.          *)
(***************************************************************************)
EXTENDS Naturals

CONSTANTS Command,
          Interval     \* ticks between two served commands

VARIABLES fresh,       \* the commands that have not been queued yet
          waiting,     \* the commands whose callers wait
          served,      \* the commands that have been served
          rank,        \* command -> its priority, 1 is the most urgent
          number,      \* command -> its place in the order of arrival
          overtaken,   \* the waiting commands a less urgent one has gone before
          quiet        \* ticks since a command was served, up to Interval

contractVars == <<fresh, waiting, served, rank, number, overtaken, quiet>>

ContractInit ==
    /\ fresh = Command /\ waiting = {} /\ served = {}
    /\ overtaken = {}
    /\ quiet = Interval

\* A command arrives behind everybody who waits.
Enters(c) ==
    /\ c \in fresh
    /\ fresh' = fresh \ {c}
    /\ waiting' = waiting \cup {c}
    /\ \A d \in waiting : number[d] < number'[c]
    /\ \A d \in Command \ {c} : rank'[d] = rank[d] /\ number'[d] = number[d]
    /\ UNCHANGED <<served, overtaken, quiet>>

\* Callers give up, are superseded, rejected, or pass without queueing.
Leave ==
    /\ fresh' \subseteq fresh
    /\ waiting' \subseteq waiting
    /\ overtaken' = overtaken \cap waiting'
    /\ UNCHANGED <<served, rank, number, quiet>>

Served(c) ==
    LET others == waiting \ {c}
        passed == {d \in others : rank[d] < rank[c]}
    IN  /\ c \in waiting
        /\ quiet = Interval
        /\ \A d \in others : rank[d] = rank[c] => number[c] < number[d]
        /\ passed \cap overtaken = {}
        /\ waiting' = others
        /\ served' = served \cup {c}
        /\ overtaken' = (overtaken \ {c}) \cup passed
        /\ quiet' = 0
        /\ UNCHANGED <<fresh, rank, number>>

Elapse ==
    /\ quiet < Interval
    /\ quiet' = quiet + 1
    /\ UNCHANGED <<fresh, waiting, served, rank, number, overtaken>>

ContractNext == (\E c \in Command : Enters(c) \/ Served(c)) \/ Leave \/ Elapse

ContractSpec == ContractInit /\ [][ContractNext]_contractVars
=============================================================================
