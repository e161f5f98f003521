--------------------------- MODULE RecoveryHandshake ---------------------------
(***************************************************************************)
(* The handshake of a recovery: the worker of startRecoveryFromRedo sends   *)
(* the accepted records of a redo log to the service, one at a time, and a  *)
(* ping after each whose answer it waits for; the service performs what it  *)
(* receives between two draws (ThreadedApplicationService.cc,               *)
(* internal/project/Redo.cc).  tbb::task_group::run_and_wait returns when   *)
(* the worker has, whichever thread it ran it on, so that the thread of the  *)
(* service takes no command until then.  The                                *)
(* dialog with the cancel button is returned by the same call: nobody can   *)
(* cancel before it ends.                                                  *)
(***************************************************************************)
EXTENDS Naturals, Sequences

CONSTANTS
  Accepted,     (* of each record of the log, whether isAccepted takes it *)
  MaxCommands   (* bound of the commands of the client that wait *)

VARIABLES
  service,      (* "running" its loop, or "waiting" in run_and_wait *)
  worker,       (* "none", "reading" a record, "waiting" for the answer *)
  position,     (* the next record of the log *)
  commands,     (* the command stream *)
  answered      (* whether the event stream has the answer to the last ping *)

vars == <<service, worker, position, commands, answered>>

Init ==
  /\ service = "running"
  /\ worker = "none"
  /\ position = 1
  /\ commands = <<>>
  /\ answered = FALSE

(* handleAcceptOnRecovery, from the dialog the service draws.               *)
AcceptRecovery ==
  /\ service = "running" /\ worker = "none" /\ position = 1
  /\ service' = "waiting"
  /\ worker' = "reading"
  /\ UNCHANGED <<position, commands, answered>>

(* receiveAllCommandMessages.                                              *)
ReceiveCommand ==
  /\ service = "running" /\ commands # <<>>
  /\ commands' = Tail(commands)
  /\ answered' = (answered \/ Head(commands) = "ping")
  /\ UNCHANGED <<service, worker, position>>

ClientCommand ==
  /\ Len(commands) < MaxCommands
  /\ commands' = Append(commands, "client")
  /\ UNCHANGED <<service, worker, position, answered>>

(* The loop of loadAllAsync: sendCommandMessage and the ping of             *)
(* waitEventMessage.                                                       *)
ReadRecord ==
  /\ worker = "reading" /\ position <= Len(Accepted)
  /\ IF Accepted[position]
     THEN /\ commands' = commands \o <<"record", "ping">>
          /\ worker' = "waiting"
          /\ answered' = FALSE
          /\ UNCHANGED position
     ELSE /\ position' = position + 1
          /\ UNCHANGED <<commands, worker, answered>>
  /\ UNCHANGED service

(* One turn of the loop of waitEventMessage, which does not block.          *)
Poll ==
  /\ worker = "waiting"
  /\ IF answered
     THEN worker' = "reading" /\ position' = position + 1
     ELSE UNCHANGED <<worker, position>>
  /\ UNCHANGED <<service, commands, answered>>

EndOfLog ==
  /\ worker = "reading" /\ position > Len(Accepted)
  /\ worker' = "none"
  /\ service' = "running"
  /\ UNCHANGED <<position, commands, answered>>

Next == AcceptRecovery \/ ReceiveCommand \/ ClientCommand \/ ReadRecord \/ Poll \/ EndOfLog

(* Neither thread stops for ever as long as it has something to do.         *)
Spec ==
  /\ Init /\ [][Next]_vars
  /\ WF_vars(ReceiveCommand)
  /\ WF_vars(ReadRecord \/ Poll \/ EndOfLog)

(* Once the user has accepted it, a recovery comes to its end               *)
(* (docs/application.rst:1164).                                            *)
RecoveryEnds == (service = "waiting") ~> (service = "running")
=============================================================================
