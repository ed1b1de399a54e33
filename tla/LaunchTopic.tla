---------------------------- MODULE LaunchTopic ----------------------------
(***************************************************************************)
(* The RPC topic `convertor.worker.control` between the API processes and  *)
(* the worker: WorkerAPI.launch_task casts to it, the worker's RPC server  *)
(* takes from it.  oslo.messaging acknowledges a message before its        *)
(* handler runs and never delivers it twice, and casts of different API    *)
(* processes have no order between them: the topic is a set, kept as what  *)
(* was ever sent and what was ever taken.                                  *)
(***************************************************************************)
EXTENDS TaskStore

CONSTANT Request    \* API requests; each casts at most once

VARIABLES
  sent,   \* messages cast so far
  taken   \* messages that have left the topic

\* The request id and show_deleted travel in the serialized request context.
Message == [request : Request, uuid : Uuid, show_deleted : BOOLEAN]

Pending == sent \ taken

\* WorkerAPI.launch_task: cast returns once the broker has the message.
Cast(m) == sent' = sent \cup {m} /\ taken' = taken

Take(m) == m \in Pending /\ taken' = taken \cup {m} /\ sent' = sent

TopicInit == sent = {} /\ taken = {}

TopicTypeOK == sent \subseteq Message /\ taken \subseteq sent
============================================================================
