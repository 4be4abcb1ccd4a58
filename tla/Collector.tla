------------------------------ MODULE Collector ------------------------------
(***************************************************************************)
(* What the clients of Codex Usage are promised about its collectors: each *)
(* CODEX_HOME has at most one ledger writer, a collector answers clients   *)
(* only while it is the writer of its home, and it stops answering before  *)
(* it lets the ledger go.  AgentLifecycle is shown to implement this.      *)
(***************************************************************************)
CONSTANTS Homes, Processes, None

VARIABLES writer,     \* per home, the process that may write the ledger
          api         \* per home, the process that answers clients

vars == <<writer, api>>

TypeOK == /\ writer \in [Homes -> Processes \cup {None}]
          /\ api \in [Homes -> Processes \cup {None}]

(* A collector answers for a home only while it is that home's writer. *)
OnlyTheWriterAnswers == \A h \in Homes : api[h] \in {writer[h], None}

Init == /\ writer = [h \in Homes |-> None]
        /\ api = [h \in Homes |-> None]

Claim(h, p) == /\ writer[h] = None
               /\ \A other \in Homes : writer[other] # p
               /\ writer' = [writer EXCEPT ![h] = p]
               /\ UNCHANGED api

Answer(h, p) == /\ writer[h] = p
                /\ api[h] = None
                /\ api' = [api EXCEPT ![h] = p]
                /\ UNCHANGED writer

Withdraw(h) == /\ api[h] # None
               /\ api' = [api EXCEPT ![h] = None]
               /\ UNCHANGED writer

Release(h) == /\ writer[h] # None
              /\ api[h] = None
              /\ writer' = [writer EXCEPT ![h] = None]
              /\ UNCHANGED api

Crash(h) == /\ writer[h] # None
            /\ writer' = [writer EXCEPT ![h] = None]
            /\ api' = [api EXCEPT ![h] = None]

Next == \E h \in Homes :
          \/ \E p \in Processes : Claim(h, p) \/ Answer(h, p)
          \/ Withdraw(h)
          \/ Release(h)
          \/ Crash(h)

Spec == Init /\ [][Next]_vars

=============================================================================
