------------------------------ MODULE Metered ------------------------------
(* What the users of the provider stage are promised about what it costs:  *)
(* an abstract specification.  Invocations draw on one allowance.  Each    *)
(* request that reaches the wire has been paid for by a debit of its own,  *)
(* an invocation has one request outstanding at a time and never more than *)
(* its ceiling, and it does not stop before its receipt names every        *)
(* request as answered or as of unknown cost.  A killed invocation loses   *)
(* its receipt and nothing else.                                           *)
EXTENDS Integers

CONSTANTS Procs,    \* invocations
          Limit,    \* the allowance
          Ceiling   \* requests of one invocation

VARIABLES spent,    \* debits of the allowance
          paid,     \* each invocation's debits
          wires,    \* its requests that reached the wire
          billed,   \* the requests its receipt names
          status    \* "working", "stopped" or "killed"

meteredVars == <<spent, paid, wires, billed, status>>

MeteredInit ==
  /\ spent = 0
  /\ paid = [p \in Procs |-> 0]
  /\ wires = [p \in Procs |-> 0]
  /\ billed = [p \in Procs |-> 0]
  /\ status = [p \in Procs |-> "working"]

Settled(p) == wires[p] <= billed[p]

\* A debit is made, and it may be withheld: then the invocation stops.
Pay(p) ==
  /\ status[p] = "working" /\ Settled(p)
  /\ spent < Limit
  /\ spent' = spent + 1
  /\ paid' = [paid EXCEPT ![p] = @ + 1]
  /\ \E s \in {"working", "stopped"} : status' = [status EXCEPT ![p] = s]
  /\ UNCHANGED <<wires, billed>>

Emit(p) ==
  /\ status[p] = "working" /\ Settled(p)
  /\ wires[p] < paid[p] /\ wires[p] < Ceiling
  /\ wires' = [wires EXCEPT ![p] = @ + 1]
  /\ UNCHANGED <<spent, paid, billed, status>>

\* The receipt names one more request; a request that never left may be named.
Bill(p) ==
  /\ status[p] = "working"
  /\ billed' = [billed EXCEPT ![p] = @ + 1]
  /\ billed[p] < paid[p]
  /\ \E s \in {"working", "stopped"} : status' = [status EXCEPT ![p] = s]
  /\ UNCHANGED <<spent, paid, wires>>

Stop(p) ==
  /\ status[p] = "working" /\ Settled(p)
  /\ status' = [status EXCEPT ![p] = "stopped"]
  /\ UNCHANGED <<spent, paid, wires, billed>>

Lose(p) ==
  /\ status[p] = "working"
  /\ status' = [status EXCEPT ![p] = "killed"]
  /\ billed' = [billed EXCEPT ![p] = 0]
  /\ UNCHANGED <<spent, paid, wires>>

MeteredNext ==
  \E p \in Procs : Pay(p) \/ Emit(p) \/ Bill(p) \/ Stop(p) \/ Lose(p)

MeteredSpec == MeteredInit /\ [][MeteredNext]_meteredVars
=============================================================================
