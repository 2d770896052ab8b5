---------------------------- MODULE TaskRealtime ----------------------------
(***************************************************************************)
(* tryRealtimeFetch (relay/relay_task.go): a user's GET of a Gemini or     *)
(* Vertex task asks the upstream and writes what it says into the row,     *)
(* beside the polling loop and without billing.                            *)
(***************************************************************************)
EXTENDS TaskBilling

\* What the upstream answers about the task; it ends once.
VARIABLE upstream

realtimeVars == <<vars, upstream>>

UpstreamEnds ==
  /\ upstream = "IN_PROGRESS" /\ upstream' \in Terminal
  /\ UNCHANGED vars

\* The loop reports a success only when the upstream did; a failure may also be
\* its own timeout.  BulkFail, which fails a task without a refund by itself,
\* is left out: what happens here is the handler's doing.
LoopPolls ==
  /\ PollStep
  /\ row.status # "SUCCESS" /\ row'.status = "SUCCESS" => upstream = "SUCCESS"
  /\ UNCHANGED upstream

\* The handler loads the task by its id, whatever its status.
FetchRead ==
  /\ pc["fetch"] = "idle"
  /\ Remember("fetch", row) /\ Goto("fetch", "loaded")
  /\ UNCHANGED <<taskFacts, row, stores, records, failures, crashes, upstream>>

\* It swaps in the upstream's status, with every column as it was read.  A lost
\* swap is ignored, and nothing is billed.
FetchWrite ==
  /\ pc["fetch"] = "loaded"
  /\ LET t == [mem["fetch"] EXCEPT !.status = upstream]
     IN  \/ UpdateWithStatus("fetch", mem["fetch"].status, t) /\ CallWorks
         \/ SwapLost("fetch", mem["fetch"].status) /\ UNCHANGED row
  /\ Goto("fetch", "idle")
  /\ UNCHANGED <<taskFacts, mem, stores, records, crashes, upstream>>

RealtimeNext == UpstreamEnds \/ LoopPolls \/ FetchRead \/ FetchWrite

RealtimeSpec ==
  /\ InitFor({"realtime"}) /\ upstream = "IN_PROGRESS"
  /\ [][RealtimeNext]_realtimeVars

RealtimeFairSpec ==
  RealtimeSpec /\ WF_realtimeVars(UpstreamEnds) /\ WF_realtimeVars(LoopPolls)
=============================================================================
