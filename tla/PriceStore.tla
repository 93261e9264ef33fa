----------------------------- MODULE PriceStore -----------------------------
(***************************************************************************)
(* What the SteamApis price cache promises its readers, with no file, no   *)
(* transaction and no process in sight.  At any moment at most one         *)
(* generation is active; it is replaced in one step by another whole one   *)
(* and is never taken away; an answer is the generation that was active    *)
(* when the answering read looked, all of it.  PriceRefresh implements it. *)
(***************************************************************************)
EXTENDS Naturals

CONSTANTS
    Requests,       \* coroutines that read the cache
    Names,          \* market hash names
    Apps,           \* games with a normal-card set
    MaxGeneration,  \* the largest generation number
    NoGeneration    \* the answer of an empty cache

VARIABLES
    active,   \* the active generation
    view,     \* view[r]: what the read r is performing has looked at
    answer    \* answer[r]: what r returned last

vars == <<active, view, answer>>

Generation == [gen : 1..MaxGeneration,
               prices : SUBSET Names,
               catalog : [Apps -> SUBSET Names]]

TypeOK ==
    /\ active \in Generation \union {NoGeneration}
    /\ view \in [Requests -> Generation \union {NoGeneration}]
    /\ answer \in [Requests -> Generation \union {NoGeneration}]

Init ==
    /\ active \in Generation \union {NoGeneration}
    /\ view = [r \in Requests |-> NoGeneration]
    /\ answer = [r \in Requests |-> NoGeneration]

\* A refresh installs a whole generation under a number no reader of the
\* previous one can confuse with it.  A generation without prices is refused.
Install ==
    /\ \E g \in Generation :
          /\ g.prices # {}
          /\ active # NoGeneration => g.gen # active.gen
          /\ active' = g
    /\ UNCHANGED <<view, answer>>

\* A new request, or a second look of the same one, forgets any earlier answer.
Look(r) ==
    /\ view' = [view EXCEPT ![r] = active]
    /\ answer' = [answer EXCEPT ![r] = NoGeneration]
    /\ UNCHANGED active

Reply(r) ==
    /\ answer' = [answer EXCEPT ![r] = view[r]]
    /\ view' = [view EXCEPT ![r] = NoGeneration]
    /\ UNCHANGED active

\* The read found a stale generation and will look again after a refresh.
Retry(r) ==
    /\ view' = [view EXCEPT ![r] = NoGeneration]
    /\ UNCHANGED <<active, answer>>

\* A process that halts takes its requests with it.
Drop(dropped) ==
    /\ view' = [r \in Requests |-> IF r \in dropped THEN NoGeneration ELSE view[r]]
    /\ answer' = [r \in Requests |-> IF r \in dropped THEN NoGeneration ELSE answer[r]]
    /\ UNCHANGED active

Next ==
    \/ Install
    \/ \E r \in Requests : Look(r) \/ Reply(r) \/ Retry(r)
    \/ \E dropped \in SUBSET Requests : Drop(dropped)

Spec == Init /\ [][Next]_vars
=============================================================================
