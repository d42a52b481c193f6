---------------------------- MODULE FreshAnswers ----------------------------
(***************************************************************************)
(* What a cache in front of a slow source promises: a request is answered  *)
(* with a value of the key it asked for that was read from the source at   *)
(* most MaxAge ago, or fails.  Requests that wait for the same key may be  *)
(* answered together.                                                      *)
(***************************************************************************)
EXTENDS Integers

CONSTANTS Requests, Keys, None, Failed,
          MaxAge(_)   \* how old a value may be when it is handed out

VARIABLES now,     \* the time
          asked,   \* asked[r]: the key of request r, or None
          answer   \* answer[r]: None, Failed, or the value it was given

freshVars == <<now, asked, answer>>

Fresh(v) == v.at <= now /\ now - v.at <= MaxAge(v)

FreshInit ==
    /\ now = 0
    /\ asked = [r \in Requests |-> None]
    /\ answer = [r \in Requests |-> None]

Pass == now' = now + 1 /\ UNCHANGED <<asked, answer>>

Ask(r, k) ==
    /\ asked[r] = None \/ answer[r] # None
    /\ asked' = [asked EXCEPT ![r] = k]
    /\ UNCHANGED now
    /\ \/ answer' = [answer EXCEPT ![r] = None]
       \/ /\ answer'[r] \notin {None, Failed}
          /\ answer'[r].key = k /\ Fresh(answer'[r])
          /\ answer' = [answer EXCEPT ![r] = answer'[r]]

\* Some of those that wait for key k, R, get one answer.
Answer(R, k) ==
    /\ \A r \in R : asked[r] = k /\ answer[r] = None
    /\ \E r \in R :
        /\ \/ answer'[r] = Failed
           \/ /\ answer'[r] \notin {None, Failed}
              /\ answer'[r].key = k /\ Fresh(answer'[r])
        /\ answer' = [q \in Requests |-> IF q \in R THEN answer'[r] ELSE answer[q]]
    /\ UNCHANGED <<now, asked>>

\* Requests that wait may be lost, whatever they wait for.
Lose(R) ==
    /\ \A r \in R : asked[r] # None /\ answer[r] = None
    /\ answer' = [q \in Requests |-> IF q \in R THEN Failed ELSE answer[q]]
    /\ UNCHANGED <<now, asked>>

FreshNext ==
    \/ Pass
    \/ \E r \in Requests, k \in Keys : Ask(r, k)
    \/ \E R \in SUBSET Requests :
        R # {} /\ (Lose(R) \/ \E k \in Keys : Answer(R, k))

FreshSpec == FreshInit /\ [][FreshNext]_freshVars

=============================================================================
