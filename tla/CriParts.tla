------------------------------ MODULE CriParts ------------------------------
(***************************************************************************)
(* What serves one request or connection: exec_sync, a websocket session,  *)
(* port forwarding over websocket and over SPDY, the framing, the gRPC     *)
(* handlers; and the runner of the conformance vectors.  The parts share   *)
(* no state; `part` says which one a behavior is of, the others stay where *)
(* they are.                                                               *)
(***************************************************************************)
EXTENDS Integers, Sequences

CONSTANTS
  None,
  PipeRoom, MaxOutput, Statuses,
  WsSessions, WsCodes, WsPipeRoom, WsMaxBytes, WsMaxFrames,
  NPorts, PfRoom, PfMaxBytes, PfMaxFrames,
  Conns, PortOf, Namings, SpRoom, SpMaxBytes, SpMaxFrames,
  Sent, HeaderLists, Payloads, LastDay,
  Sandboxes, Containers, Codes, Clients, LabelsOf, Filters, PodFilters,
  VrCodes, Suites, BadRefs, Refs, IdOf, SizeOf

VARIABLES
  part,
  timed, expired, child, status, plan, wrote, buffer, helper, server, output, result,
  ws_session, ws_loop, ws_why, ws_open, ws_proc, ws_writers, ws_made, ws_sent, ws_stdin,
  ws_reader, ws_recorded, ws_gone, ws_inbox, ws_budget, ws_client, ws_said,
  pf_loop, pf_at, pf_order, pf_up, pf_failed, pf_unread, pf_half, pf_made, pf_back, pf_fin,
  pf_inbox, pf_budget, pf_client,
  sp_named, sp_loop, sp_frame, sp_errors, sp_tcp, sp_routed, sp_refused, sp_told, sp_reset,
  sp_unread, sp_from, sp_half, sp_made, sp_closed, sp_pump, sp_back, sp_fin, sp_inbox, sp_opened,
  sp_budget, sp_client,
  cd_sent, cd_wire, cd_buf, cd_got, cd_failed,
  sb, ct, spent, call, answer, seen,
  vr_sb, vr_ct, vr_spent, vr_images, vr_cfg, vr_adopted, vr_suite, vr_pc, vr_results, vr_late,
  vr_report,
  im_pulled, im_busy, im_answer

Es == INSTANCE ExecSync
Ws == INSTANCE WsSession
Pf == INSTANCE WsPortForward
Sp == INSTANCE SpdyPortForward
Cd == INSTANCE WireCodec
Sh == INSTANCE CriShell
Vr == INSTANCE VectorRunner
Im == INSTANCE ImageShell

es == <<timed, expired, child, status, plan, wrote, buffer, helper, server, output, result>>
ws == <<ws_session, ws_loop, ws_why, ws_open, ws_proc, ws_writers, ws_made, ws_sent, ws_stdin,
        ws_reader, ws_recorded, ws_gone, ws_inbox, ws_budget, ws_client, ws_said>>
pf == <<pf_loop, pf_at, pf_order, pf_up, pf_failed, pf_unread, pf_half, pf_made, pf_back,
        pf_fin, pf_inbox, pf_budget, pf_client>>
sp == <<sp_named, sp_loop, sp_frame, sp_errors, sp_tcp, sp_routed, sp_refused, sp_told,
        sp_reset, sp_unread, sp_from, sp_half, sp_made, sp_closed, sp_pump, sp_back, sp_fin, sp_inbox,
        sp_opened, sp_budget, sp_client>>
cd == <<cd_sent, cd_wire, cd_buf, cd_got, cd_failed>>
sh == <<sb, ct, spent, call, answer, seen>>
vr == <<vr_sb, vr_ct, vr_spent, vr_images, vr_cfg, vr_adopted, vr_suite, vr_pc, vr_results,
        vr_late, vr_report>>
im == <<im_pulled, im_busy, im_answer>>
vars == <<part, es, ws, pf, sp, cd, sh, vr, im>>

\* What the parts assume of their constants.
ASSUME PartsConstantsOK ==
  /\ Es!ExecSyncConstants /\ Ws!WsConstants /\ Pf!PfConstants /\ Sp!SpConstants
  /\ Sh!ShellConstants /\ LastDay \in Nat
-----------------------------------------------------------------------------
Parts == {"exec_sync", "ws", "ws_ports", "spdy_ports", "codec", "shell", "images", "vectors"}

\* The parts that the behavior is not of wait in one of their initial states.
Init ==
  /\ part \in Parts
  /\ Es!Init /\ (part # "exec_sync" => ~timed /\ plan = 0)
  /\ Ws!Init /\ (part # "ws" => ws_session.stdin /\ ws_session.waiter = "child")
  /\ Pf!Init /\ (part # "ws_ports" => \A i, j \in Pf!Index : i < j => pf_order[i] < pf_order[j])
  /\ Sp!Init /\ (part # "spdy_ports" => sp_named = Conns)
  /\ Cd!Init /\ (part # "codec" => cd_sent = <<>>)
  /\ Sh!Init
  /\ Im!Init /\ im_busy = {}
  /\ Vr!Init /\ (part # "vectors" => vr_suite = <<>>)

ExecSyncStep == part = "exec_sync" /\ Es!Next /\ UNCHANGED <<part, ws, pf, sp, cd, sh, vr, im>>
WsStep == part = "ws" /\ Ws!Next /\ UNCHANGED <<part, es, pf, sp, cd, sh, vr, im>>
WsPortsStep == part = "ws_ports" /\ Pf!Next /\ UNCHANGED <<part, es, ws, sp, cd, sh, vr, im>>
SpdyPortsStep == part = "spdy_ports" /\ Sp!Next /\ UNCHANGED <<part, es, ws, pf, cd, sh, vr, im>>
CodecStep == part = "codec" /\ Cd!Next /\ UNCHANGED <<part, es, ws, pf, sp, sh, vr, im>>
VectorsStep == part = "vectors" /\ Vr!Next /\ UNCHANGED <<part, es, ws, pf, sp, cd, sh, im>>
ImagesStep == part = "images" /\ Im!Next /\ UNCHANGED <<part, es, ws, pf, sp, cd, sh, vr>>
ShellStep == part = "shell" /\ Sh!Next /\ UNCHANGED <<part, es, ws, pf, sp, cd, vr, im>>

Next == ExecSyncStep \/ WsStep \/ WsPortsStep \/ SpdyPortsStep \/ CodecStep
  \/ ShellStep \/ ImagesStep \/ VectorsStep

\* The fairness of every part, as its module states it.
Fairness ==
  /\ WF_es(part = "exec_sync" /\ Es!ServerStep)
  /\ WF_es(part = "exec_sync" /\ Es!Expire)
  /\ WF_es(part = "exec_sync" /\ Es!Write)
  /\ WF_es(part = "exec_sync" /\ \E st \in Statuses : Es!Finish(st))
  /\ WF_ws(part = "ws" /\ Ws!LoopStep)
  /\ WF_pf(part = "ws_ports" /\ Pf!LoopStep)
  /\ \A i \in Pf!Index : /\ SF_pf(part = "ws_ports" /\ Pf!Forward(i))
                          /\ SF_pf(part = "ws_ports" /\ Pf!Eof(i))
  /\ WF_sp(part = "spdy_ports" /\ Sp!LoopStep)
  /\ \A c \in Conns : WF_sp(part = "spdy_ports" /\ Sp!Pump(c))
  /\ WF_vr(part = "vectors" /\ Vr!RunnerStep)
  /\ WF_vr(part = "vectors" /\ Vr!Expire)

FairSpec == Init /\ [][Next]_vars /\ Fairness
-----------------------------------------------------------------------------
(* What each part's module says of it, where the behavior is of that part. *)

\* exec_sync's answer is the command's own: ExecSync.
ResultIsWhole == part = "exec_sync" => Es!ResultIsWhole
\* The status of a websocket session is the exit, but for an attach, and comes last: WsSession.
StatusIsLast == part = "ws" => Ws!StatusIsLast
\* Forwarded connections do not mix, if they carry a requestID: SpdyPortForward.
OwnTarget == part = "spdy_ports" => Sp!OwnTarget
\* A refused dial is told to the client that asked: SpdyPortForward.
RefusalIsTold == part = "spdy_ports" => Sp!RefusalIsTold
\* Frames arrive as they were sent, however the bytes are cut: WireCodec.
FramesReassembled == part = "codec" => Cd!FramesReassembled
\* Every codec's decoder undoes its encoder: WireCodec.
RoundTrips == part = "codec" => Cd!RoundTrips
\* The log's dates are those of the calendar: WireCodec.
DateIsCalendar == part = "codec" => Cd!DateIsCalendar
\* The runner passes true vectors and fails false ones: VectorRunner.
VerdictsAreRight == part = "vectors" => Vr!VerdictsAreRight

\* A list, status or stats call answers what was true while it ran: CriShell, ImageShell.
AnswersAreTrue == Sh!AnswersAreTrue /\ Im!AnswersAreTrue

\* Every part gets on: exec_sync returns, a websocket session ends after its process, a
\* SPDY port forward ends with its connection, a forwarded port is served, a directory of
\* vectors is run to its end; each with the exceptions its module names.
Due ==
  \/ part = "exec_sync"
  \/ part = "ws" /\ Ws!Over
  \/ part = "spdy_ports" /\ Sp!Over
  \/ part = "vectors"
Done ==
  \/ part = "exec_sync" /\ (Es!Returned \/ Es!Held)
  \/ part = "ws" /\ Ws!Ended
  \/ part = "spdy_ports" /\ Sp!Ended
  \/ part = "vectors" /\ (Vr!Ended \/ Vr!Stuck)
PartsProgress == (Due ~> Done) /\ Pf!ForwardsFirst
=============================================================================
