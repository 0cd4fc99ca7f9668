------------------------------ MODULE AnswerBox ------------------------------
(***************************************************************************)
(* What a public form promises to a respondent whose answer it took,       *)
(* without handlers, uploads, relays, retries or reloads:                  *)
(*   - an answer kept in the browser stays there until the owner has it or *)
(*     a newer one needs its place, and only a full box gives a place away;*)
(*   - what the owner has is never taken away;                             *)
(*   - "submitted" is said once, of a whole answer the owner has; after    *)
(*     that the answer is neither kept, sent nor changed again, also when  *)
(*     an error of the page makes My Responses say "failed" of it.         *)
(***************************************************************************)
EXTENDS Naturals, FiniteSets

CONSTANTS
  Answers,    \* the answers a respondent may give
  Room        \* how many of them the browser keeps

VARIABLES
  told,       \* told[a]: what My Responses says of answer a
  kept,       \* the answers kept in the browser
  arrived,    \* arrived[a]: what the owner has of answer a
  lossy       \* whether an answer may be kept without its payload

boxVars == <<told, kept, arrived, lossy>>

BoxInit ==
  /\ told = [a \in Answers |-> "nothing"]
  /\ kept = {}
  /\ arrived = [a \in Answers |-> "none"]
  /\ lossy \in BOOLEAN

Give(a) ==
  /\ told[a] = "nothing"
  /\ told' = [told EXCEPT ![a] = "waiting"]
  /\ UNCHANGED <<kept, arrived, lossy>>

Open(a) == told[a] = "waiting"

(* Some answers arrive; the browser need not learn of it.                  *)
Land(answers) ==
  /\ \A a \in answers : Open(a)
  /\ arrived' = [a \in Answers |-> IF a \in answers THEN "whole" ELSE arrived[a]]

Arrive(answers) == Land(answers) /\ UNCHANGED <<told, kept, lossy>>

(* A box that is full gives one place of another answer away.              *)
Keep(a) ==
  /\ Open(a)
  /\ LET wanted == kept \cup {a} IN
     IF Cardinality(wanted) <= Room
       THEN kept' = wanted
       ELSE \E other \in kept \ {a} : kept' = wanted \ {other}
  /\ UNCHANGED arrived \/ Land({a})
  /\ UNCHANGED <<told, lossy>>

ArriveHollow(a) ==
  /\ Open(a)
  /\ lossy
  /\ arrived' = [arrived EXCEPT ![a] = "hollow"]
  /\ UNCHANGED <<told, kept, lossy>>

Release(a) ==
  /\ a \in kept
  /\ arrived[a] # "none"
  /\ kept' = kept \ {a}
  /\ UNCHANGED <<told, arrived, lossy>>

Confirm(a) ==
  /\ Open(a)
  /\ arrived[a] = "whole" /\ a \notin kept
  /\ told' = [told EXCEPT ![a] = "submitted"]
  /\ UNCHANGED <<kept, arrived, lossy>>

(* An error after the confirmation costs its notice, never the answer.     *)
Withdraw(a) ==
  /\ told[a] = "submitted"
  /\ told' = [told EXCEPT ![a] = "withdrawn"]
  /\ UNCHANGED <<kept, arrived, lossy>>

BoxNext ==
  \/ \E a \in Answers :
       \/ Give(a) \/ Keep(a) \/ ArriveHollow(a) \/ Release(a)
       \/ Confirm(a) \/ Withdraw(a)
  \/ \E answers \in SUBSET Answers : Arrive(answers)

BoxSpec == BoxInit /\ [][BoxNext]_boxVars

==============================================================================
