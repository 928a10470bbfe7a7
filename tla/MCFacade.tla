------------------------------ MODULE MCFacade ------------------------------
(* Finite instances of Facade for TLC: every combination of well-formed and *)
(* broken parts of a request.                                               *)
EXTENDS Facade, TLC

FixtureRequired == (Settle :> {"amount", "currency"})

Acts == { NoAct, [type |-> "workload", id |-> "spiffe://gw"],
          [type |-> "workload", id |-> "legacy"], [type |-> "user", id |-> "spiffe://gw"] }

PropSets == { EmptyMap, NilMap,
              GoMap([amount |-> "limit", currency |-> "text"]),
              GoMap([amount |-> "high", currency |-> "text"]),
              GoMap([amount |-> "high"]),
              GoMap([amount |-> "null", currency |-> "text"]),
              GoMap([amount |-> "false", currency |-> "text"]) }

Subjects == [type : {"user", "robot"}, id : {"", "u1"}, aal : {Absent, "AAL2", "AAL3"}, act : Acts]

Contexts == { [profile |-> "edge", source_ip |-> "ip", partner_id |-> Absent],
              [profile |-> "edge", source_ip |-> Absent, partner_id |-> Absent],
              [profile |-> "east_west", source_ip |-> Absent, partner_id |-> Absent],
              [profile |-> "partner", source_ip |-> Absent, partner_id |-> "bank"],
              [profile |-> Absent, source_ip |-> Absent, partner_id |-> Absent] }

Actions == { Settle, Name("bill", "pay"), Malformed("Settle") }
Types   == { Name("acct", "wallet"), Name("bill", "invoice") }

\* Broken subjects and contexts with one well-formed tuple, and every tuple with
\* one well-formed subject.
AllRequests ==
  { [subject |-> s, action |-> Settle,
     resource |-> [type |-> Name("acct", "wallet"), id |-> "w1", props |-> p],
     context |-> c] : s \in Subjects, p \in PropSets, c \in Contexts }
  \cup
  { [subject |-> [type |-> "user", id |-> "u1", aal |-> "AAL3", act |-> NoAct], action |-> a,
     resource |-> [type |-> t, id |-> i, props |-> p],
     context |-> [profile |-> "edge", source_ip |-> "ip", partner_id |-> Absent]] :
       a \in Actions, t \in Types, i \in {"", "w1"}, p \in PropSets }
=============================================================================
