----------------------- MODULE ServerLifecycle_proofs -----------------------
EXTENDS ServerLifecycle, TLAPS

-----------------------------------------------------------------------------
(* Typing of the building blocks, so that the step proofs keep catalogs opaque. *)

LEMMA EmptyTypes == /\ NoTools \in Catalog
                    /\ NoServer \in Server
                    /\ NoJob \in Job
                    /\ NoRequest \in Request
<1>1. NoTools \in Catalog
  BY DEF NoTools, Catalog
<1> QED
  BY <1>1, MaxIdAssumption DEF NoServer, Server, NoJob, Job, NoRequest, Request

LEMMA ExposedType == ASSUME NEW s \in Server PROVE Exposed(s) \in Catalog
BY EmptyTypes DEF Exposed, Server

LEMMA DriftedType == ASSUME NEW s \in Server PROVE Drifted(s) \in BOOLEAN
BY DEF Drifted, Server

LEMMA ChangedType ==
  ASSUME NEW fires, announced \in Catalog, srv' \in Server, Changed(fires)
  PROVE  announced' \in Catalog /\ untold' \in BOOLEAN
BY ExposedType DEF Changed

LEMMA JoinType ==
  ASSUME TypeOK, JoinIndex
  PROVE  indexing' \in Job
<1>1. StartedJob \in Job
  BY EmptyTypes DEF TypeOK, StartedJob, Server, Job, Waits
<1> QED
  BY <1>1 DEF JoinIndex, TypeOK

LEMMA SettleType ==
  ASSUME TypeOK, NEW ok, Settle(ok)
  PROVE  indexing' \in Job /\ request' \in [Client -> Request]
<1>1. ASSUME NEW c \in Client
      PROVE  (IF request[c].pc = "waiting"
                THEN [request[c] EXCEPT !.pc = IF ok THEN "indexed" ELSE "failed"]
                ELSE request[c]) \in Request
  <2>1. request[c] \in Request
    BY DEF TypeOK
  <2> QED
    BY <2>1 DEF Request
<1> QED
  BY <1>1, EmptyTypes DEF Settle

LEMMA ReplyType ==
  ASSUME TypeOK, NEW c \in Client, Reply(c)
  PROVE  request' \in [Client -> Request]
BY EmptyTypes DEF TypeOK, Reply

-----------------------------------------------------------------------------
\* Every variable keeps its type: ids stay within the installations made,
\* catalogs total, and suspended handlers in the states the code gives them.
THEOREM TypeCorrect == Spec => []TypeOK
<1> USE AbsentAssumption, MaxIdAssumption, EmptyTypes
<1>1. Init => TypeOK
  <2>1. 0 \in 0..MaxId
    OBVIOUS
  <2> QED
    BY <2>1 DEF Init, TypeOK
<1>2. TypeOK /\ [Next]_vars => TypeOK'
  <2> SUFFICES ASSUME TypeOK, [Next]_vars PROVE TypeOK'
    OBVIOUS
  <2> USE DEF TypeOK
  <2>1. CASE Reindex BY <2>1, JoinType DEF Reindex
  <2>2. CASE ListChanged BY <2>2, JoinType DEF ListChanged
  <2>3. CASE ProbeFails BY <2>3, SettleType DEF ProbeFails
  <2>4. CASE ListTools BY <2>4 DEF ListTools, Job, Waits
  <2>5. CASE ReadExisting BY <2>5 DEF ReadExisting, Job, Waits, Drain, Server
  <2>6. CASE Embedded BY <2>6 DEF Embedded, Job, Drain
  <2>7. CASE SaveTools
    <3>1. [t \in Tool |-> IF indexing.got[t] = indexing.existing[t]
                            THEN srv.tools[t] ELSE indexing.got[t]] \in Catalog
      BY DEF Job, Server, Catalog
    <3> QED BY <2>7, <3>1 DEF SaveTools, Job, Server, Drain
  <2>8. CASE SaveRefused BY <2>8, SettleType DEF SaveRefused
  <2>9. CASE MarkIndexed BY <2>9 DEF MarkIndexed, Job, Server, Drain
  <2>10. CASE PinFirst BY <2>10 DEF PinFirst, Job, Server, Drain
  <2>11. CASE IndexedNothing BY <2>11, SettleType DEF IndexedNothing
  <2>12. CASE SetQuarantined
    <3>1. srv' \in Server BY <2>12, DriftedType DEF SetQuarantined, Judged, Server
    <3> QED BY <2>12, <3>1, ChangedType DEF SetQuarantined, Judged, Job, Drain
  <2>13. CASE FinishIndex BY <2>13, SettleType, ChangedType DEF FinishIndex
  <2>14. CASE Disable
    <3>1. srv' \in Server BY <2>14 DEF Disable, Server
    <3> QED BY <2>14, <3>1, ChangedType DEF Disable
  <2>15. CASE Review BY <2>15 DEF Review, ToolHashes, Server
  <2>16. CASE Approve
    <3>1. srv' \in Server BY <2>16 DEF Approve, Consent, Server
    <3> QED BY <2>16, <3>1, ChangedType DEF Approve, Consent
  <2>17. CASE Crash BY <2>17, ExposedType DEF Crash, Judging
  <2>29. CASE WriteFails BY <2>29, SettleType DEF WriteFails, Judging
  <2>30. CASE ApproveCut
    <3>1. srv' \in Server BY <2>30 DEF ApproveCut, Consent, Server
    <3> QED BY <2>30, <3>1 DEF ApproveCut, Consent
  <2>18. ASSUME NEW c \in Client, Install(c) PROVE TypeOK'
    <3>0. lastId + 1 \in 0..MaxId
      BY <2>18 DEF Install, NextId
    <3>1. srv' \in Server /\ lastId' \in 0..MaxId
      BY <2>18, <3>0 DEF Install, NextId, Server
    <3>2. indexing' \in Job
      <4>1. StartedJob \in Job /\ [StartedJob EXCEPT !.id = lastId + 1] \in Job
        BY <3>0 DEF StartedJob, Job, Waits, Server
      <4> QED BY <2>18, <4>1 DEF Install, NextId
    <3>3. request' \in [Client -> Request]
      <4>1. PICK enable \in BOOLEAN :
              request' = [request EXCEPT ![c] = [NoRequest EXCEPT !.op = "install", !.pc = "waiting",
                                                                  !.enable = enable]]
        BY <2>18 DEF Install, NextId
      <4>2. [NoRequest EXCEPT !.op = "install", !.pc = "waiting", !.enable = enable] \in Request
        BY DEF Request
      <4> QED BY <4>1, <4>2
    <3> QED BY <2>18, <3>1, <3>2, <3>3 DEF Install, NextId
  <2>19. ASSUME NEW c \in Client, EnableNow(c)
         PROVE  /\ srv' \in Server /\ announced' \in Catalog
                /\ request' \in [Client -> Request] /\ untold' \in BOOLEAN
    <3>1. srv' \in Server BY <2>19 DEF EnableNow, Server
    <3> QED BY <2>19, <3>1, ChangedType, ReplyType DEF EnableNow
  <2>20. ASSUME NEW c \in Client, EnableAfterIndex(c)
         PROVE  indexing' \in Job /\ request' \in [Client -> Request]
    BY <2>20, JoinType DEF EnableAfterIndex, Request, Server
  <2>21. ASSUME NEW c \in Client, Enable(c) PROVE TypeOK'
    BY <2>19, <2>20, <2>21 DEF Enable, EnableNow, EnableAfterIndex
  <2>22. ASSUME NEW c \in Client, Uninstall(c) PROVE TypeOK'
    BY <2>22 DEF Uninstall, Request, Server
  <2>23. ASSUME NEW c \in Client, InstallResumes(c) PROVE TypeOK'
    BY <2>19, <2>20, <2>23, ReplyType DEF InstallResumes, EnableNow, EnableAfterIndex
  <2>24. ASSUME NEW c \in Client, EnableResumes(c) PROVE TypeOK'
    <3>1. srv' \in Server BY <2>24 DEF EnableResumes, Server
    <3> QED BY <2>24, <3>1, ChangedType, ReplyType DEF EnableResumes
  <2>25. ASSUME NEW c \in Client, IndexErrorReported(c) PROVE TypeOK'
    BY <2>25, ReplyType DEF IndexErrorReported
  <2>26. ASSUME NEW c \in Client, DropTools(c) PROVE TypeOK'
    <3>1. request[c] \in Request OBVIOUS
    <3> QED BY <2>26, <3>1 DEF DropTools, Server, Request
  <2>27. ASSUME NEW c \in Client, DropServer(c) PROVE TypeOK'
    BY <2>27, ChangedType, ReplyType DEF DropServer
  <2>28. CASE UNCHANGED vars BY <2>28 DEF vars
  <2> QED
    BY <2>1, <2>2, <2>3, <2>4, <2>5, <2>6, <2>7, <2>8, <2>9, <2>10, <2>11, <2>12, <2>13, <2>14,
       <2>15, <2>16, <2>17, <2>18, <2>21, <2>22, <2>23, <2>24, <2>25, <2>26, <2>27, <2>28,
       <2>29, <2>30
    DEF Next, IndexStep, Resumes
<1> QED BY <1>1, <1>2, PTL DEF Spec

-----------------------------------------------------------------------------
(* Row ids come from AUTOINCREMENT: an id is never given twice, so a job   *)
(* that outlives its server never writes into the one installed after it.  *)

IdsInv == /\ srv.id \in 0..lastId
          /\ indexing.pc # "idle" => indexing.id \in 1..lastId

LEMMA IdsInvStep == TypeOK /\ IdsInv /\ [Next]_vars => IdsInv'
<1> SUFFICES ASSUME TypeOK, IdsInv, [Next]_vars PROVE IdsInv'
  OBVIOUS
<1>0. ASSUME Installed, JoinIndex, UNCHANGED <<srv, lastId>> PROVE IdsInv'
  BY <1>0 DEF JoinIndex, StartedJob, NoJob, IdsInv, Installed, TypeOK
<1>1. CASE Reindex \/ ListChanged
  BY <1>0, <1>1 DEF Reindex, ListChanged
<1>2. CASE \/ ProbeFails \/ SaveRefused \/ IndexedNothing \/ FinishIndex \/ WriteFails \/ Crash
  BY <1>2 DEF ProbeFails, SaveRefused, IndexedNothing, FinishIndex, WriteFails, Crash, Settle, NoJob, IdsInv
<1>3. CASE ListTools \/ ReadExisting \/ Embedded
  BY <1>3 DEF ListTools, ReadExisting, Embedded, IdsInv, TypeOK, Job
<1>4. CASE SaveTools
  BY <1>4 DEF SaveTools, IdsInv, TypeOK, Job, Server
<1>5. CASE MarkIndexed \/ PinFirst \/ SetQuarantined
  BY <1>5 DEF MarkIndexed, PinFirst, SetQuarantined, Judged, IdsInv, TypeOK, Job, Server
<1>6. CASE Disable \/ Review \/ Approve \/ ApproveCut
  BY <1>6 DEF Disable, Review, ToolHashes, Approve, ApproveCut, Consent, IdsInv, TypeOK, Server
<1>7. ASSUME NEW c \in Client, Install(c) PROVE IdsInv'
  <2>1. lastId' = lastId + 1 /\ srv'.id = lastId + 1
    BY <1>7 DEF Install, NextId, NoServer
  <2>2. \/ indexing'.id = lastId + 1
        \/ indexing' = indexing /\ indexing.pc # "idle"
    BY <1>7 DEF Install, NextId, StartedJob, NoJob
  <2> QED BY <2>1, <2>2 DEF IdsInv, TypeOK
<1>8. ASSUME NEW c \in Client, EnableNow(c), UNCHANGED lastId PROVE IdsInv'
  BY <1>8 DEF EnableNow, IdsInv, TypeOK, Server
<1>9. ASSUME NEW c \in Client, EnableAfterIndex(c), UNCHANGED lastId PROVE IdsInv'
  BY <1>0, <1>9 DEF EnableAfterIndex
<1>10. ASSUME NEW c \in Client, Enable(c) \/ InstallResumes(c) PROVE IdsInv'
  BY <1>8, <1>9, <1>10 DEF Enable, InstallResumes, IdsInv
<1>11. ASSUME NEW c \in Client, EnableResumes(c) \/ DropTools(c) PROVE IdsInv'
  BY <1>11 DEF EnableResumes, DropTools, IdsInv, TypeOK, Server
<1>12. ASSUME NEW c \in Client, DropServer(c) PROVE IdsInv'
  BY <1>12 DEF DropServer, NoServer, IdsInv, TypeOK
<1>13. ASSUME NEW c \in Client, Uninstall(c) \/ IndexErrorReported(c) PROVE IdsInv'
  BY <1>13 DEF Uninstall, IndexErrorReported, IdsInv
<1>14. CASE UNCHANGED vars
  BY <1>14 DEF vars, IdsInv
<1> QED
  BY <1>1, <1>2, <1>3, <1>4, <1>5, <1>6, <1>7, <1>10, <1>11, <1>12, <1>13, <1>14
  DEF Next, IndexStep, Resumes

LEMMA IdsCorrect == Spec => []IdsInv
<1>1. Init => IdsInv
  BY DEF Init, IdsInv, NoServer, NoJob
<1>2. TypeOK /\ IdsInv /\ [Next]_vars => IdsInv'
  BY IdsInvStep
<1> QED BY <1>1, <1>2, TypeCorrect, PTL DEF Spec

LEMMA SettleEffect ==
  ASSUME TypeOK, NEW ok, Settle(ok)
  PROVE  /\ indexing'.pc = "idle"
         /\ \A c \in Client : request[c].pc = "dropping" <=> request'[c].pc = "dropping"
<1>1. ASSUME NEW c \in Client
      PROVE  request[c].pc = "dropping" <=> request'[c].pc = "dropping"
  <2>1. request[c] \in Request
    BY DEF TypeOK
  <2>2. request'[c] = IF request[c].pc = "waiting"
                        THEN [request[c] EXCEPT !.pc = IF ok THEN "indexed" ELSE "failed"]
                        ELSE request[c]
    BY DEF Settle
  <2> QED BY <2>1, <2>2 DEF Request
<1> QED BY <1>1 DEF Settle, NoJob

LEMMA JoinEffect ==
  ASSUME TypeOK, JoinIndex
  PROVE  \/ indexing.pc = "idle" /\ indexing'.pc = "probing"
         \/ indexing' = indexing
BY DEF JoinIndex, StartedJob, NoJob

-----------------------------------------------------------------------------
(* The index is the listing.                                               *)
(* save() writes a difference to rows it read earlier.  That difference is *)
(* still right when it is written because the rows of a live id change     *)
(* only through the one running job or an uninstall, which retires the id. *)

NobodyDropping == \A c \in Client : request[c].pc # "dropping"

SavedInv ==
  /\ indexing.pc \in Drain
       => \A c \in Client : request[c].pc \notin {"indexed", "failed", "dropping"}
  /\ indexing.pc \in {"embedding", "saving"} /\ indexing.id = srv.id /\ NobodyDropping
       => srv.tools = indexing.existing
  /\ SavedIsListed

\* The steps of handlers: the job's listing and the rows it read stay, and so do
\* the tools of the row it captured, or else that row is gone for good.
LEMMA SavedInvHandlers ==
  ASSUME TypeOK, IdsInv, SavedInv, indexing.pc \notin Drain,
         indexing' = indexing \/ indexing'.pc \in {"idle", "probing", "listed"},
         \/ srv'.id = srv.id /\ srv'.tools = srv.tools
         \/ indexing'.pc \in {"embedding", "saving"} => srv'.id # indexing'.id,
         \A c \in Client : request[c].pc = "dropping" => request'[c].pc = "dropping"
  PROVE  SavedInv'
BY DEF SavedInv, SavedIsListed, NobodyDropping, Drain

LEMMA SavedInvEnable ==
  ASSUME TypeOK, IdsInv, SavedInv, indexing.pc \notin Drain, NEW c \in Client,
         request[c].pc # "dropping", EnableNow(c) \/ EnableAfterIndex(c)
  PROVE  SavedInv'
<1>1. \A d \in Client : request[d].pc = "dropping" => request'[d].pc = "dropping"
  BY DEF EnableNow, EnableAfterIndex, Reply, TypeOK
<1>2. CASE EnableNow(c)
  BY <1>1, <1>2, SavedInvHandlers DEF EnableNow, TypeOK, Server
<1>3. CASE EnableAfterIndex(c)
  BY <1>1, <1>3, SavedInvHandlers, JoinEffect DEF EnableAfterIndex
<1> QED BY <1>2, <1>3

LEMMA SavedInvStep == TypeOK /\ IdsInv /\ SavedInv /\ [Next]_vars => SavedInv'
<1> SUFFICES ASSUME TypeOK, IdsInv, SavedInv, [Next]_vars PROVE SavedInv'
  OBVIOUS
<1>1. CASE Reindex
  BY <1>1, JoinEffect, SavedInvHandlers DEF Reindex, Busy
<1>2. CASE ListChanged
  BY <1>2, JoinEffect, SavedInvHandlers DEF ListChanged, Busy
<1>3. CASE \/ ProbeFails \/ SaveRefused \/ IndexedNothing \/ FinishIndex \/ WriteFails
  <2>1. indexing'.pc = "idle"
    BY <1>3 DEF ProbeFails, SaveRefused, IndexedNothing, FinishIndex, WriteFails, Settle, NoJob
  <2> QED BY <2>1 DEF SavedInv, SavedIsListed, Drain
<1>4. CASE ListTools
  BY <1>4, SavedInvHandlers DEF ListTools, TypeOK, Job, Drain
<1>5. CASE ReadExisting
  <2>1. /\ indexing'.pc \in {"embedding", "saving"}
        /\ indexing'.id = indexing.id
        /\ indexing'.existing = IF indexing.id = srv.id THEN srv.tools ELSE NoTools
    BY <1>5 DEF ReadExisting, TypeOK, Job
  <2> QED BY <1>5, <2>1 DEF ReadExisting, SavedInv, SavedIsListed, Busy, Drain
<1>6. CASE Embedded
  BY <1>6 DEF Embedded, SavedInv, SavedIsListed, NobodyDropping, Busy, Drain, TypeOK, Job
<1>7. CASE SaveTools
  <2>1. /\ indexing'.pc = "saved" /\ indexing'.id = indexing.id
        /\ indexing'.got = indexing.got /\ srv'.id = srv.id
    BY <1>7 DEF SaveTools, TypeOK, Job, Server
  <2>2. ASSUME indexing.id = srv.id PROVE srv'.tools = indexing.got
    <3>1. srv.tools = indexing.existing
      BY <1>7, <2>2 DEF SaveTools, SavedInv, NobodyDropping, Drain
    <3>2. srv'.tools = [t \in Tool |-> IF indexing.got[t] = indexing.existing[t]
                                         THEN srv.tools[t] ELSE indexing.got[t]]
      BY <1>7, <2>2 DEF SaveTools, TypeOK, Server
    <3>3. indexing.got = [t \in Tool |-> indexing.got[t]]
      BY DEF TypeOK, Job, Catalog
    <3> QED BY <3>1, <3>2, <3>3
  <2> QED BY <1>7, <2>1, <2>2 DEF SaveTools, SavedInv, SavedIsListed, Drain
<1>8. CASE MarkIndexed \/ PinFirst \/ SetQuarantined
  BY <1>8 DEF MarkIndexed, PinFirst, SetQuarantined, Judged, SavedInv, SavedIsListed, Drain, TypeOK, Job, Server
<1>9. CASE Disable \/ Approve \/ ApproveCut
  BY <1>9, SavedInvHandlers DEF Disable, Approve, ApproveCut, Consent, Busy, TypeOK, Server
<1>10. CASE Review
  BY <1>10, SavedInvHandlers DEF Review, ToolHashes, Busy
<1>11. CASE Crash
  BY <1>11 DEF Crash, NoJob, SavedInv, SavedIsListed, Drain
<1>12. ASSUME NEW c \in Client, Install(c) PROVE SavedInv'
  <2>1. /\ indexing.pc \notin Drain /\ srv'.id = lastId + 1
        /\ \A d \in Client : request[d].pc = "dropping" => request'[d].pc = "dropping"
    BY <1>12 DEF Install, NextId, Busy, NoServer, TypeOK
  <2>2. \/ indexing'.pc = "probing"
        \/ indexing' = indexing /\ indexing.pc # "idle"
    BY <1>12 DEF Install, NextId, StartedJob, NoJob
  <2> QED BY <2>1, <2>2, SavedInvHandlers DEF IdsInv, TypeOK
<1>13. ASSUME NEW c \in Client, Enable(c) PROVE SavedInv'
  BY <1>13, SavedInvEnable DEF Enable, Busy
<1>14. ASSUME NEW c \in Client, Uninstall(c) PROVE SavedInv'
  BY <1>14, SavedInvHandlers DEF Uninstall, Busy, TypeOK
<1>15. ASSUME NEW c \in Client, InstallResumes(c) PROVE SavedInv'
  <2>1. indexing.pc \notin Drain
    BY <1>15 DEF InstallResumes, SavedInv
  <2>2. CASE EnableNow(c) \/ EnableAfterIndex(c)
    BY <1>15, <2>1, <2>2, SavedInvEnable DEF InstallResumes
  <2>3. CASE Reply(c) /\ UNCHANGED <<srv, indexing, announced>>
    BY <1>15, <2>1, <2>3, SavedInvHandlers DEF InstallResumes, Reply, TypeOK
  <2> QED BY <1>15, <2>2, <2>3 DEF InstallResumes
<1>16. ASSUME NEW c \in Client, EnableResumes(c) PROVE SavedInv'
  <2>1. indexing.pc \notin Drain
    BY <1>16 DEF EnableResumes, SavedInv
  <2> QED BY <1>16, <2>1, SavedInvHandlers DEF EnableResumes, Reply, TypeOK, Server
<1>17. ASSUME NEW c \in Client, IndexErrorReported(c) PROVE SavedInv'
  <2>1. indexing.pc \notin Drain
    BY <1>17 DEF IndexErrorReported, SavedInv
  <2> QED BY <1>17, <2>1, SavedInvHandlers DEF IndexErrorReported, Reply, TypeOK
<1>18. ASSUME NEW c \in Client, DropTools(c) PROVE SavedInv'
  <2>1. request'[c].pc = "dropping"
    BY <1>18 DEF DropTools, TypeOK, Request
  <2> QED BY <1>18, <2>1 DEF DropTools, SavedInv, SavedIsListed, NobodyDropping, Busy
<1>19. ASSUME NEW c \in Client, DropServer(c) PROVE SavedInv'
  <2>1. indexing.pc \notin Drain
    BY <1>19 DEF DropServer, SavedInv
  <2>2. indexing.pc # "idle" => indexing.id # 0
    BY DEF IdsInv, TypeOK
  <2> QED BY <1>19, <2>1, <2>2 DEF DropServer, NoServer, SavedInv, SavedIsListed, Drain
<1>20. CASE UNCHANGED vars
  BY <1>20 DEF vars, SavedInv, SavedIsListed, NobodyDropping
<1> QED
  BY <1>1, <1>2, <1>3, <1>4, <1>5, <1>6, <1>7, <1>8, <1>9, <1>10, <1>11, <1>12, <1>13, <1>14,
     <1>15, <1>16, <1>17, <1>18, <1>19, <1>20
  DEF Next, IndexStep, Resumes

LEMMA SavedInvHolds == Spec => []SavedInv
<1>1. Init => SavedInv
  BY DEF Init, SavedInv, SavedIsListed, NoJob, Drain
<1>2. TypeOK /\ IdsInv /\ SavedInv /\ [Next]_vars => SavedInv'
  BY SavedInvStep
<1> QED BY <1>1, <1>2, TypeCorrect, IdsCorrect, PTL DEF Spec

\* For any catalogs and interleavings, a job that reaches its row leaves exactly
\* the listing it fetched in the index.
THEOREM SavedCorrect == Spec => []SavedIsListed
<1>1. SavedInv => SavedIsListed
  BY DEF SavedInv
<1> QED BY <1>1, SavedInvHolds, PTL

-----------------------------------------------------------------------------
(* Quarantine follows the pins.                                            *)
(* QuarantineIsDrift is not inductive: a finishing run (Busy) breaks it    *)
(* between its commits, and an uninstall empties the tools of a row it is  *)
(* about to delete.  The strengthening says between which steps it may be  *)
(* broken, that nothing but a fault there leaves it so (unjudged), that a  *)
(* verdict finds pins, and that a name without a row has no quarantine,    *)
(* pins or index.                                                          *)

QuarantineInv ==
  /\ srv.id = 0 => ~srv.quarantined /\ ~srv.pinned /\ ~srv.indexed
  /\ ~unjudged /\ ~Judging /\ NobodyDropping => (srv.quarantined <=> Drifted(srv))
  /\ ~unjudged /\ indexing.pc # "marked" => (srv.indexed => srv.pinned)
  /\ indexing.pc = "pinned" => srv.pinned

LEMMA QuarantineInvInit == Init => QuarantineInv
BY DEF Init, QuarantineInv, NoServer, NoJob, Drifted, Judging

\* The steps that leave what the database holds alone.
LEMMA QuarantineInvSameServer ==
  ASSUME TypeOK, QuarantineInv, UNCHANGED <<srv, unjudged>>, ~Judging, ~Judging',
         \A c \in Client : request[c].pc = "dropping" => request'[c].pc = "dropping"
  PROVE  QuarantineInv'
BY DEF QuarantineInv, NobodyDropping, Drifted, Judging

LEMMA EnableKeepsQuarantine ==
  ASSUME TypeOK, QuarantineInv, UNCHANGED unjudged, NEW c \in Client, request[c].pc # "dropping",
         EnableNow(c) \/ EnableAfterIndex(c)
  PROVE  QuarantineInv'
<1>0. \A d \in Client : request[d].pc = "dropping" => request'[d].pc = "dropping"
  BY DEF EnableNow, EnableAfterIndex, Reply, TypeOK, Judging
<1>1. CASE EnableNow(c)
  BY <1>0, <1>1 DEF EnableNow, QuarantineInv, NobodyDropping, Drifted, TypeOK, Server, Installed, Judging
<1>2. CASE EnableAfterIndex(c)
  BY <1>0, <1>2, JoinEffect DEF EnableAfterIndex, QuarantineInv, NobodyDropping, Drifted, Judging
<1> QED BY <1>1, <1>2

LEMMA QuarantineInvStep ==
  TypeOK /\ IdsInv /\ SavedInv /\ QuarantineInv /\ [Next]_vars => QuarantineInv'
<1> SUFFICES ASSUME TypeOK, IdsInv, SavedInv, QuarantineInv, [Next]_vars PROVE QuarantineInv'
  OBVIOUS
<1>1. CASE Reindex
  BY <1>1, JoinEffect, QuarantineInvSameServer DEF Reindex, Judging
<1>2. CASE ListChanged
  BY <1>2, JoinEffect, QuarantineInvSameServer DEF ListChanged, Busy, Drain, Judging
<1>3. CASE ProbeFails
  BY <1>3, SettleEffect, QuarantineInvSameServer DEF ProbeFails, Judging
<1>4. CASE ListTools
  BY <1>4, QuarantineInvSameServer DEF ListTools, TypeOK, Job, Judging
<1>5. CASE ReadExisting
  BY <1>5, QuarantineInvSameServer DEF ReadExisting, TypeOK, Job, Judging
<1>6. CASE Embedded
  BY <1>6, QuarantineInvSameServer DEF Embedded, TypeOK, Job, Judging
<1>7. CASE SaveTools
  BY <1>7 DEF SaveTools, QuarantineInv, TypeOK, Job, Server, NobodyDropping, Judging
<1>8. CASE SaveRefused
  BY <1>8, SettleEffect, QuarantineInvSameServer DEF SaveRefused, Judging
<1>9. CASE MarkIndexed
  BY <1>9 DEF MarkIndexed, QuarantineInv, IdsInv, TypeOK, Job, Server, Judging
<1>10. CASE PinFirst
  BY <1>10 DEF PinFirst, QuarantineInv, TypeOK, Job, Server, Installed, Judging
<1>11. CASE IndexedNothing
  BY <1>11, SettleEffect DEF IndexedNothing, QuarantineInv, Installed, NoServer, Drifted, Judging
<1>12. CASE SetQuarantined
  BY <1>12, DriftedType DEF SetQuarantined, Judged, QuarantineInv, TypeOK, Job, Server, Drifted, Judging
<1>13. CASE FinishIndex
  BY <1>13, SettleEffect, QuarantineInvSameServer DEF FinishIndex, Judging
<1>14. CASE Disable
  BY <1>14 DEF Disable, QuarantineInv, NobodyDropping, TypeOK, Server, Drifted, Judging
<1>15. CASE Review
  BY <1>15 DEF Review, ToolHashes, QuarantineInv, NobodyDropping, Judging
<1>16. CASE Approve
  BY <1>16 DEF Approve, Consent, QuarantineInv, TypeOK, Server, Drifted, Installed, Judging
<1>17. CASE Crash
  BY <1>17 DEF Crash, QuarantineInv, NobodyDropping, NoJob, NoRequest, Judging
<1>18. ASSUME NEW c \in Client, Install(c) PROVE QuarantineInv'
  BY <1>18 DEF Install, NextId, QuarantineInv, NoServer, Drifted, StartedJob, NoJob, TypeOK, Busy, Drain, Judging
<1>19. ASSUME NEW c \in Client, Enable(c) PROVE QuarantineInv'
  BY <1>19, EnableKeepsQuarantine DEF Enable, Judging
<1>20. ASSUME NEW c \in Client, Uninstall(c) PROVE QuarantineInv'
  BY <1>20 DEF Uninstall, QuarantineInv, NobodyDropping, TypeOK, Judging
<1>21. ASSUME NEW c \in Client, InstallResumes(c) PROVE QuarantineInv'
  <2>1. CASE EnableNow(c) \/ EnableAfterIndex(c)
    BY <1>21, <2>1, EnableKeepsQuarantine DEF InstallResumes, Judging
  <2>2. CASE Reply(c) /\ UNCHANGED <<srv, indexing, announced>>
    BY <1>21, <2>2 DEF InstallResumes, Reply, QuarantineInv, NobodyDropping, TypeOK, Judging
  <2> QED BY <1>21, <2>1, <2>2 DEF InstallResumes, Judging
<1>22. ASSUME NEW c \in Client, EnableResumes(c) PROVE QuarantineInv'
  BY <1>22 DEF EnableResumes, Reply, QuarantineInv, NobodyDropping, TypeOK, Server, Drifted, Judging
<1>23. ASSUME NEW c \in Client, IndexErrorReported(c) PROVE QuarantineInv'
  BY <1>23 DEF IndexErrorReported, Reply, QuarantineInv, NobodyDropping, TypeOK, Judging
<1>24. ASSUME NEW c \in Client, DropTools(c) PROVE QuarantineInv'
  <2>1. request'[c].pc = "dropping"
    BY <1>24 DEF DropTools, TypeOK, Request, Judging
  <2> QED BY <1>24, <2>1 DEF DropTools, QuarantineInv, NobodyDropping, TypeOK, Server, Judging
<1>25. ASSUME NEW c \in Client, DropServer(c) PROVE QuarantineInv'
  BY <1>25 DEF DropServer, SavedInv, QuarantineInv, NoServer, Drifted, Drain
<1>27. CASE WriteFails
  BY <1>27, SettleEffect DEF WriteFails, QuarantineInv, NobodyDropping, Judging
<1>28. CASE ApproveCut
  BY <1>28 DEF ApproveCut, Consent, QuarantineInv, TypeOK, Server, Installed
<1>26. CASE UNCHANGED vars
  BY <1>26 DEF vars, QuarantineInv, NobodyDropping, Drifted, Judging
<1> QED
  BY <1>1, <1>2, <1>3, <1>4, <1>5, <1>6, <1>7, <1>8, <1>9, <1>10, <1>11, <1>12, <1>13, <1>14,
     <1>15, <1>16, <1>17, <1>18, <1>19, <1>20, <1>21, <1>22, <1>23, <1>24, <1>25, <1>26,
     <1>27, <1>28
  DEF Next, IndexStep, Resumes

LEMMA QuarantineInvHolds == Spec => [](TypeOK /\ QuarantineInv)
<1>1. TypeOK /\ IdsInv /\ SavedInv /\ QuarantineInv /\ [Next]_vars => QuarantineInv'
  BY QuarantineInvStep
<1> QED BY <1>1, QuarantineInvInit, TypeCorrect, IdsCorrect, SavedInvHolds, PTL DEF Spec

\* For any tools, definitions, clients and number of installations, and crashes and
\* failing writes at any commit: whenever a handler can look, a server is quarantined
\* exactly while its tools differ from the approved ones, except between a fault that
\* cut a run and the next verdict.
THEOREM QuarantineCorrect == Spec => []QuarantineIsDrift
<1>1. TypeOK /\ QuarantineInv => QuarantineIsDrift
  BY DEF QuarantineInv, QuarantineIsDrift, NobodyDropping, Busy, Drain, Judging
<1> QED BY <1>1, QuarantineInvHolds, PTL

\* With the same exception, callTool never lets a tool of an indexed server through
\* whose definition is not the approved one.
THEOREM CallsApproved == Spec => []CallableIsApproved
<1>1. TypeOK /\ QuarantineInv => CallableIsApproved
  <2> SUFFICES ASSUME TypeOK, QuarantineInv, ~Busy, ~unjudged, srv.indexed, NEW t \in Tool, Callable(t)
               PROVE  srv.pinned /\ srv.pins[t] # Absent /\ srv.tools[t] = srv.pins[t]
    BY DEF CallableIsApproved
  <2>1. srv.pinned /\ ~Drifted(srv)
    BY DEF QuarantineInv, NobodyDropping, Busy, Drain, Judging, Callable
  <2> QED BY <2>1 DEF Drifted, Callable
<1> QED BY <1>1, QuarantineInvHolds, PTL

\* The approved set moves only by the user's review: every other step leaves it
\* alone, pins for the first time, or belongs to another installation.
THEOREM ConsentMovesPins == Spec => PinsMoveByConsent
<1> DEFINE Moves == srv'.id = srv.id /\ srv.pinned /\ srv'.pins # srv.pins
                      => srv'.pins = reviewed /\ srv.tools = reviewed
<1>1. TypeOK /\ IdsInv /\ QuarantineInv /\ [Next]_vars => [Moves]_vars
  <2> SUFFICES ASSUME TypeOK, IdsInv, QuarantineInv, Next PROVE Moves
    OBVIOUS
  <2>1. CASE IndexStep
    BY <2>1 DEF IndexStep, ProbeFails, ListTools, ReadExisting, Embedded, SaveTools, SaveRefused,
                MarkIndexed, PinFirst, IndexedNothing, SetQuarantined, Judged, FinishIndex, TypeOK, Server
  <2>2. CASE Approve \/ ApproveCut
    BY <2>2 DEF Approve, ApproveCut, Consent, TypeOK, Server
  <2>3. CASE Reindex \/ ListChanged \/ Review \/ WriteFails \/ Crash
    BY <2>3 DEF Reindex, ListChanged, Review, ToolHashes, WriteFails, Crash
  <2>4. CASE Disable
    BY <2>4 DEF Disable, TypeOK, Server
  <2>5. ASSUME NEW c \in Client, Install(c) \/ Uninstall(c) PROVE Moves
    <3>1. CASE Install(c)
      <4>1. srv.id = 0 /\ srv'.id = lastId + 1
        BY <3>1 DEF Install, NextId, Installed, NoServer
      <4> QED BY <4>1 DEF TypeOK
    <3>2. CASE Uninstall(c)
      BY <3>2 DEF Uninstall
    <3> QED BY <2>5, <3>1, <3>2
  <2>6. ASSUME NEW c \in Client, EnableNow(c) \/ EnableAfterIndex(c) PROVE Moves
    BY <2>6 DEF EnableNow, EnableAfterIndex, TypeOK, Server
  <2>7. ASSUME NEW c \in Client, Enable(c) PROVE Moves
    BY <2>6, <2>7 DEF Enable
  <2>8. ASSUME NEW c \in Client, Resumes(c) PROVE Moves
    <3>1. CASE InstallResumes(c)
      BY <2>6, <3>1 DEF InstallResumes
    <3>2. CASE EnableResumes(c) \/ IndexErrorReported(c) \/ DropTools(c)
      BY <3>2 DEF EnableResumes, IndexErrorReported, DropTools, TypeOK, Server
    <3>3. CASE DropServer(c)
      BY <3>3 DEF DropServer, NoServer, QuarantineInv
    <3> QED BY <2>8, <3>1, <3>2, <3>3 DEF Resumes
  <2> QED BY <2>1, <2>2, <2>3, <2>4, <2>5, <2>7, <2>8 DEF Next
<1> QED BY <1>1, QuarantineInvHolds, IdsCorrect, PTL DEF Spec, PinsMoveByConsent

-----------------------------------------------------------------------------
(* Hosts know what is exposed.                                             *)
(* Between the commits of a run the tools are already other ones; the run  *)
(* then ends with FinishIndex, which announces them: ShapeChanged compares *)
(* the listing with the rows save() read, and what save() left as it was   *)
(* is what the host has.                                                   *)

Told == Exposed(srv) # NoTools => announced = Exposed(srv)
Finishing == indexing.pc \in {"saved", "marked", "pinned", "judged"}

AnnouncedInv == /\ srv.id = 0 => srv.tools = NoTools
                /\ untold \/ Told \/ (Finishing /\ ShapeChanged)

\* A handler that leaves the run and the exposed tools alone, or announces them.
LEMMA AnnouncedInvElsewhere ==
  ASSUME AnnouncedInv, NEW fires \in BOOLEAN, Changed(fires),
         srv'.id = 0 => srv'.tools = NoTools,
         ~fires => Exposed(srv') = Exposed(srv) \/ Exposed(srv') = NoTools,
         indexing' = indexing \/ ~Finishing
  PROVE  AnnouncedInv'
<1>1. CASE fires
  BY <1>1 DEF AnnouncedInv, Changed, Told
<1>2. CASE ~fires /\ Told
  <2>1. announced' = announced
    BY <1>2 DEF Changed
  <2> QED BY <1>2, <2>1 DEF AnnouncedInv, Told
<1>4. CASE ~fires /\ untold
  BY <1>4 DEF AnnouncedInv, Changed
<1>3. CASE ~Told /\ ~untold
  <2>1. indexing' = indexing /\ Finishing /\ ShapeChanged
    BY <1>3 DEF AnnouncedInv
  <2>2. Finishing' /\ ShapeChanged'
    BY <2>1 DEF Finishing, ShapeChanged
  <2> QED BY <2>2 DEF AnnouncedInv
<1> QED BY <1>1, <1>2, <1>3, <1>4

\* Steps that touch neither the row nor what was announced.
LEMMA AnnouncedInvSameServer ==
  ASSUME AnnouncedInv, UNCHANGED <<srv, announced, untold>>,
         indexing' = indexing \/ ~Finishing
  PROVE  AnnouncedInv'
<1>1. CASE Told \/ untold
  BY <1>1 DEF AnnouncedInv, Told
<1>2. CASE ~Told /\ ~untold
  <2>1. Finishing' /\ ShapeChanged'
    BY <1>2 DEF AnnouncedInv, Finishing, ShapeChanged
  <2> QED BY <2>1 DEF AnnouncedInv
<1> QED BY <1>1, <1>2

LEMMA EnableKeepsAnnounced ==
  ASSUME TypeOK, AnnouncedInv, NEW c \in Client, EnableNow(c) \/ EnableAfterIndex(c)
  PROVE  AnnouncedInv'
<1>1. CASE EnableNow(c)
  <2>1. Changed(~srv.enabled) /\ indexing' = indexing
    BY <1>1 DEF EnableNow
  <2>2. srv'.id = srv.id /\ srv'.tools = srv.tools
    BY <1>1 DEF EnableNow, TypeOK, Server
  <2>3. srv.enabled => srv' = srv
    BY <1>1 DEF EnableNow, TypeOK, Server
  <2>4. (~srv.enabled) \in BOOLEAN
    BY DEF TypeOK, Server
  <2> QED BY <2>1, <2>2, <2>3, <2>4, AnnouncedInvElsewhere DEF AnnouncedInv
<1>2. CASE EnableAfterIndex(c)
  <2>1. indexing' = indexing \/ ~Finishing
    BY <1>2, JoinEffect DEF EnableAfterIndex, Finishing
  <2> QED BY <1>2, <2>1, AnnouncedInvSameServer DEF EnableAfterIndex
<1> QED BY <1>1, <1>2

LEMMA AnnouncedInvStep == TypeOK /\ IdsInv /\ AnnouncedInv /\ [Next]_vars => AnnouncedInv'
<1> SUFFICES ASSUME TypeOK, IdsInv, AnnouncedInv, [Next]_vars PROVE AnnouncedInv'
  OBVIOUS
<1>1. CASE Reindex \/ ListChanged
  <2>1. indexing' = indexing \/ ~Finishing
    BY <1>1, JoinEffect DEF Reindex, ListChanged, Finishing
  <2> QED BY <1>1, <2>1, AnnouncedInvSameServer DEF Reindex, ListChanged
<1>2. CASE ProbeFails \/ ListTools \/ ReadExisting \/ Embedded \/ SaveRefused
  <2>1. ~Finishing
    BY <1>2 DEF ProbeFails, ListTools, ReadExisting, Embedded, SaveRefused, Finishing
  <2> QED
    BY <1>2, <2>1, AnnouncedInvSameServer
    DEF ProbeFails, ListTools, ReadExisting, Embedded, SaveRefused
<1>3. CASE SaveTools
  <2>1. (untold \/ Told) /\ announced' = announced /\ untold' = untold
    BY <1>3 DEF SaveTools, AnnouncedInv, Finishing
  <2>2. srv'.id = 0 => srv'.tools = NoTools
    BY <1>3 DEF SaveTools, AnnouncedInv, IdsInv, TypeOK, Server
  <2>3. Finishing' /\ (ShapeChanged' <=> ShapeChanged)
    BY <1>3 DEF SaveTools, Finishing, ShapeChanged, TypeOK, Job
  <2>4. CASE ShapeChanged
    BY <2>2, <2>3, <2>4 DEF AnnouncedInv
  <2>5. CASE ~ShapeChanged
    <3>1. srv.tools \in [Tool -> Hash \cup {Absent}]
      BY DEF TypeOK, Server, Catalog
    <3>2. [t \in Tool |-> IF indexing.got[t] = indexing.existing[t]
                            THEN srv.tools[t] ELSE indexing.got[t]] = srv.tools
      BY <2>5, <3>1 DEF ShapeChanged
    <3>3. srv' = srv
      BY <1>3, <3>2 DEF SaveTools, TypeOK, Server
    <3> QED BY <2>1, <3>3 DEF AnnouncedInv, Told
  <2> QED BY <2>4, <2>5
<1>4. CASE MarkIndexed \/ PinFirst
  <2>1. /\ Finishing' /\ Finishing /\ (ShapeChanged' <=> ShapeChanged)
        /\ announced' = announced /\ untold' = untold
    BY <1>4 DEF MarkIndexed, PinFirst, Finishing, ShapeChanged, TypeOK, Job
  <2>2. /\ srv'.id = srv.id /\ srv'.tools = srv.tools
        /\ srv'.enabled = srv.enabled /\ srv'.quarantined = srv.quarantined
    BY <1>4 DEF MarkIndexed, PinFirst, TypeOK, Server
  <2> QED BY <2>1, <2>2 DEF AnnouncedInv, Told, Exposed
<1>5. CASE IndexedNothing
  <2>1. srv.tools = NoTools
    BY <1>5 DEF IndexedNothing, AnnouncedInv, Installed
  <2> QED BY <1>5, <2>1 DEF IndexedNothing, AnnouncedInv, Told, Exposed
<1>6. CASE SetQuarantined
  <2>1. /\ Finishing' /\ (ShapeChanged' <=> ShapeChanged)
    BY <1>6 DEF SetQuarantined, Finishing, ShapeChanged, TypeOK, Job
  <2>2. /\ srv'.id = srv.id /\ srv'.tools = srv.tools /\ srv'.enabled = srv.enabled
        /\ srv'.quarantined = Judged.quarantined
    BY <1>6 DEF SetQuarantined, Judged, TypeOK, Server
  <2>3. CASE srv.enabled /\ srv.quarantined # Judged.quarantined
    BY <1>6, <2>2, <2>3 DEF SetQuarantined, Changed, AnnouncedInv, Told
  <2>4. CASE ~(srv.enabled /\ srv.quarantined # Judged.quarantined)
    <3>1. announced' = announced /\ (untold => untold')
      BY <1>6, <2>4 DEF SetQuarantined, Changed
    <3>2. Exposed(srv') = Exposed(srv)
      BY <2>2, <2>4 DEF Exposed
    <3> QED BY <2>1, <2>2, <3>1, <3>2 DEF AnnouncedInv, Told
  <2> QED BY <2>3, <2>4
<1>7. CASE FinishIndex
  <2>1. srv' = srv /\ Changed(srv.enabled /\ ShapeChanged)
    BY <1>7 DEF FinishIndex
  <2>2. CASE srv.enabled /\ ShapeChanged
    BY <2>1, <2>2 DEF Changed, AnnouncedInv, Told
  <2>3. CASE ~srv.enabled
    BY <2>1, <2>3 DEF AnnouncedInv, Told, Exposed
  <2>4. CASE ~ShapeChanged
    <3>1. (untold' \/ Told) /\ announced' = announced
      BY <2>1, <2>4 DEF Changed, AnnouncedInv
    <3> QED BY <2>1, <3>1 DEF AnnouncedInv, Told
  <2> QED BY <2>2, <2>3, <2>4
<1>8. CASE Disable
  <2>1. Changed(TRUE) /\ indexing' = indexing /\ srv'.id = srv.id /\ srv'.tools = srv.tools
    BY <1>8 DEF Disable, TypeOK, Server
  <2> QED BY <2>1, AnnouncedInvElsewhere DEF AnnouncedInv
<1>9. CASE Review
  BY <1>9, AnnouncedInvSameServer DEF Review
<1>10. CASE Approve
  <2>1. Changed(srv.enabled /\ srv.quarantined) /\ indexing' = indexing
    BY <1>10 DEF Approve, FiresWhenLifting
  <2>2. /\ srv'.id = srv.id /\ srv'.tools = srv.tools /\ srv'.enabled = srv.enabled
        /\ srv'.quarantined = FALSE
    BY <1>10 DEF Approve, TypeOK, Server
  <2>3. ~(srv.enabled /\ srv.quarantined) => Exposed(srv') = Exposed(srv)
    BY <2>2 DEF Exposed
  <2>4. (srv.enabled /\ srv.quarantined) \in BOOLEAN
    OBVIOUS
  <2> QED BY <2>1, <2>2, <2>3, <2>4, AnnouncedInvElsewhere DEF AnnouncedInv
<1>11. CASE Crash
  BY <1>11 DEF Crash, AnnouncedInv, Told
<1>20. CASE WriteFails
  <2>1. CASE Judging
    BY <1>20, <2>1 DEF WriteFails, AnnouncedInv
  <2>2. CASE ~Judging
    <3>1. ~Finishing
      BY <1>20, <2>2 DEF WriteFails, Judging, Finishing
    <3> QED BY <1>20, <2>2, <3>1 DEF WriteFails, AnnouncedInv, Told
  <2> QED BY <2>1, <2>2
<1>21. CASE ApproveCut
  BY <1>21 DEF ApproveCut, AnnouncedInv, Told, Exposed, ShapeChanged, Finishing, TypeOK, Server
<1>12. ASSUME NEW c \in Client, Install(c) PROVE AnnouncedInv'
  <2>1. srv'.tools = NoTools /\ srv'.id = lastId + 1
    BY <1>12 DEF Install, NextId, NoServer
  <2> QED BY <2>1 DEF AnnouncedInv, Told, Exposed
<1>13. ASSUME NEW c \in Client, Enable(c) PROVE AnnouncedInv'
  BY <1>13, EnableKeepsAnnounced DEF Enable
<1>14. ASSUME NEW c \in Client, Uninstall(c) \/ IndexErrorReported(c) PROVE AnnouncedInv'
  BY <1>14, AnnouncedInvSameServer DEF Uninstall, IndexErrorReported
<1>15. ASSUME NEW c \in Client, InstallResumes(c) PROVE AnnouncedInv'
  <2>1. CASE EnableNow(c) \/ EnableAfterIndex(c)
    BY <2>1, EnableKeepsAnnounced
  <2>2. CASE UNCHANGED <<srv, indexing, announced, untold>>
    BY <2>2, AnnouncedInvSameServer
  <2> QED BY <1>15, <2>1, <2>2 DEF InstallResumes
<1>16. ASSUME NEW c \in Client, EnableResumes(c) PROVE AnnouncedInv'
  <2>1. Changed(~request[c].enabled) /\ indexing' = indexing
    BY <1>16 DEF EnableResumes
  <2>2. srv'.id = srv.id /\ srv'.tools = srv.tools /\ (request[c].enabled => srv' = srv)
    BY <1>16 DEF EnableResumes, TypeOK, Server
  <2>3. (~request[c].enabled) \in BOOLEAN
    OBVIOUS
  <2> QED BY <2>1, <2>2, <2>3, AnnouncedInvElsewhere DEF AnnouncedInv
<1>17. ASSUME NEW c \in Client, DropTools(c) PROVE AnnouncedInv'
  <2>1. CASE request[c].id = srv.id
    <3>1. srv'.tools = NoTools
      BY <1>17, <2>1 DEF DropTools, TypeOK, Server
    <3> QED BY <3>1 DEF AnnouncedInv, Told, Exposed
  <2>2. CASE request[c].id # srv.id
    BY <1>17, <2>2, AnnouncedInvSameServer DEF DropTools
  <2> QED BY <2>1, <2>2
<1>18. ASSUME NEW c \in Client, DropServer(c) PROVE AnnouncedInv'
  BY <1>18 DEF DropServer, NoServer, AnnouncedInv, Told, Exposed
<1>19. CASE UNCHANGED vars
  BY <1>19, AnnouncedInvSameServer DEF vars
<1> QED
  BY <1>1, <1>2, <1>3, <1>4, <1>5, <1>6, <1>7, <1>8, <1>9, <1>10, <1>11, <1>12, <1>13, <1>14,
     <1>15, <1>16, <1>17, <1>18, <1>19, <1>20, <1>21
  DEF Next, IndexStep, Resumes

LEMMA AnnouncedInvHolds == Spec => []AnnouncedInv
<1>1. Init => AnnouncedInv
  BY DEF Init, AnnouncedInv, Told, Exposed, NoServer
<1>2. TypeOK /\ IdsInv /\ AnnouncedInv /\ [Next]_vars => AnnouncedInv'
  BY AnnouncedInvStep
<1> QED BY <1>1, <1>2, TypeCorrect, IdsCorrect, PTL DEF Spec

\* A host that lists on every list_changed has the tools the daemon exposes,
\* whatever handlers, index runs and uninstalls overlap (every call of changed()).
THEOREM AnnouncedCorrect == Spec => []ExposureAnnounced
<1>1. AnnouncedInv => ExposureAnnounced
  BY DEF AnnouncedInv, Told, Finishing, ExposureAnnounced, Busy, Drain
<1> QED BY <1>1, AnnouncedInvHolds, PTL

-----------------------------------------------------------------------------
(* What hosts are told is what the user approved.                          *)
(* Between the commits of a run the tools are not judged yet; no handler   *)
(* runs then (SavedInv), and the run itself announces only after its       *)
(* verdict.                                                                *)

\* What is not held back is approved as it is.
ApprovedAsIs(s) == ~s.quarantined /\ s.tools # NoTools => s.pinned /\ s.pins = s.tools

ExposedInv == /\ unjudged \/ Judging \/ ApprovedAsIs(srv)
              /\ indexing.pc = "pinned" => srv.pinned

LEMMA ExposedInvSameServer ==
  ASSUME ExposedInv, UNCHANGED <<srv, unjudged>>, ~Judging, ~Judging' PROVE ExposedInv'
BY DEF ExposedInv, Judging

\* Every step keeps ExposedInv, and tells nobody of tools that are not judged.
LEMMA ExposedInvStep ==
  ASSUME TypeOK, SavedInv, AnnouncedInv, ExposedInv, [Next]_vars
  PROVE  /\ ExposedInv'
         /\ \/ announced' \in {announced, NoTools}
            \/ announced' = Exposed(srv') /\ ~Judging'
<1> DEFINE Tells == \/ announced' \in {announced, NoTools}
                    \/ announced' = Exposed(srv') /\ ~Judging'
<1>0. ASSUME NEW c \in Client, EnableNow(c) \/ EnableAfterIndex(c), UNCHANGED unjudged, ~Judging
      PROVE  ExposedInv' /\ Tells
  <2>1. CASE EnableNow(c)
    <3>1. /\ srv'.quarantined = srv.quarantined /\ srv'.tools = srv.tools
          /\ srv'.pinned = srv.pinned /\ srv'.pins = srv.pins
      BY <2>1 DEF EnableNow, TypeOK, Server
    <3>2. indexing' = indexing
      BY <2>1 DEF EnableNow
    <3>3. ExposedInv'
      BY <1>0, <3>1, <3>2 DEF ExposedInv, ApprovedAsIs, Judging
    <3> QED BY <1>0, <2>1, <3>2, <3>3 DEF EnableNow, Changed, Judging
  <2>2. CASE EnableAfterIndex(c)
    <3>1. UNCHANGED <<srv, announced, unjudged>> /\ ~Judging'
      BY <1>0, <2>2, JoinEffect DEF EnableAfterIndex, Judging
    <3> QED BY <1>0, <3>1, ExposedInvSameServer
  <2> QED BY <1>0, <2>1, <2>2
<1>1. CASE Reindex \/ ListChanged
  <2>1. ~Judging /\ ~Judging' /\ UNCHANGED <<srv, announced, unjudged>>
    BY <1>1, JoinEffect DEF Reindex, ListChanged, Busy, Drain, Judging
  <2> QED BY <2>1, ExposedInvSameServer
<1>2. CASE ProbeFails \/ SaveRefused
  <2>1. ~Judging /\ ~Judging' /\ UNCHANGED <<srv, announced, unjudged>>
    BY <1>2 DEF ProbeFails, SaveRefused, Settle, NoJob, Judging
  <2> QED BY <2>1, ExposedInvSameServer
<1>3. CASE ListTools \/ ReadExisting \/ Embedded
  <2>1. ~Judging /\ ~Judging' /\ UNCHANGED <<srv, announced, unjudged>>
    BY <1>3 DEF ListTools, ReadExisting, Embedded, Judging, TypeOK, Job
  <2> QED BY <2>1, ExposedInvSameServer
<1>4. CASE SaveTools \/ MarkIndexed
  <2>1. indexing'.pc \in {"saved", "marked"} /\ announced' = announced
    BY <1>4 DEF SaveTools, MarkIndexed, TypeOK, Job
  <2> QED BY <2>1 DEF ExposedInv, Judging
<1>5. CASE PinFirst
  <2>1. indexing'.pc = "pinned" /\ srv'.pinned /\ announced' = announced
    BY <1>5 DEF PinFirst, TypeOK, Job, Server
  <2> QED BY <2>1 DEF ExposedInv, Judging
<1>6. CASE IndexedNothing
  <2>1. srv'.tools = NoTools /\ indexing'.pc = "idle" /\ announced' = announced
    BY <1>6 DEF IndexedNothing, Settle, NoJob, AnnouncedInv, Installed
  <2> QED BY <2>1 DEF ExposedInv, ApprovedAsIs
<1>7. CASE SetQuarantined
  <2>1. /\ srv'.quarantined = Drifted(srv) /\ srv'.tools = srv.tools
        /\ srv'.pinned = srv.pinned /\ srv'.pins = srv.pins /\ indexing'.pc = "judged"
    BY <1>7 DEF SetQuarantined, Judged, TypeOK, Server, Job
  <2>2. srv.pinned
    BY <1>7 DEF SetQuarantined, ExposedInv
  <2> QED BY <1>7, <2>1, <2>2 DEF SetQuarantined, Changed, ExposedInv, ApprovedAsIs, Drifted, Judging
<1>8. CASE FinishIndex
  <2>1. UNCHANGED <<srv, unjudged>> /\ ~Judging /\ ~Judging' /\ Changed(srv.enabled /\ ShapeChanged)
    BY <1>8 DEF FinishIndex, Settle, NoJob, Judging
  <2> QED BY <2>1, ExposedInvSameServer DEF Changed
<1>9. CASE Disable
  <2>1. /\ srv'.quarantined = srv.quarantined /\ srv'.tools = srv.tools
        /\ srv'.pinned = srv.pinned /\ srv'.pins = srv.pins
        /\ indexing' = indexing /\ unjudged' = unjudged /\ ~Judging
    BY <1>9 DEF Disable, TypeOK, Server, Busy, Drain, Judging
  <2>2. ~Judging' /\ ExposedInv'
    BY <2>1 DEF ExposedInv, ApprovedAsIs, Judging
  <2> QED BY <1>9, <2>2 DEF Disable, Changed
<1>10. CASE Review
  <2>1. ~Judging /\ ~Judging' /\ UNCHANGED <<srv, announced, unjudged>>
    BY <1>10 DEF Review, Busy, Drain, Judging
  <2> QED BY <2>1, ExposedInvSameServer
<1>11. CASE Approve
  <2>1. srv'.pinned /\ srv'.pins = srv'.tools /\ indexing' = indexing /\ ~Judging
    BY <1>11 DEF Approve, TypeOK, Server, Busy, Drain, Judging
  <2>2. ~Judging' /\ ExposedInv'
    BY <2>1 DEF ExposedInv, ApprovedAsIs, Judging
  <2> QED BY <1>11, <2>2 DEF Approve, Changed
<1>12. CASE Crash
  <2>1. ~Judging' /\ UNCHANGED srv /\ announced' = Exposed(srv) /\ (Judging \/ unjudged => unjudged')
    BY <1>12 DEF Crash, NoJob, Judging
  <2>2. indexing'.pc = "idle"
    BY <1>12 DEF Crash, NoJob
  <2> QED BY <2>1, <2>2 DEF ExposedInv, ApprovedAsIs
<1>23. CASE WriteFails
  <2>1. /\ srv' = srv /\ indexing'.pc = "idle" /\ (Judging \/ unjudged => unjudged')
        /\ announced' \in {NoTools, announced}
    BY <1>23 DEF WriteFails, Settle, NoJob
  <2>2. ExposedInv'
    BY <2>1 DEF ExposedInv, ApprovedAsIs
  <2> QED BY <2>1, <2>2
<1>24. CASE ApproveCut
  <2>1. unjudged' /\ announced' = announced /\ indexing' = indexing /\ srv'.pinned
    BY <1>24 DEF ApproveCut, TypeOK, Server
  <2> QED BY <2>1 DEF ExposedInv
<1>13. ASSUME NEW c \in Client, Install(c) PROVE ExposedInv' /\ Tells
  <2>1. srv'.tools = NoTools /\ ~Judging' /\ announced' = announced
    BY <1>13 DEF Install, NoServer, StartedJob, NoJob, Busy, Drain, Judging
  <2> QED BY <2>1 DEF ExposedInv, ApprovedAsIs, Judging
<1>14. ASSUME NEW c \in Client, Enable(c) PROVE ExposedInv' /\ Tells
  BY <1>0, <1>14 DEF Enable, Busy, Drain, Judging
<1>15. ASSUME NEW c \in Client, Uninstall(c) PROVE ExposedInv' /\ Tells
  <2>1. ~Judging /\ ~Judging' /\ UNCHANGED <<srv, announced, unjudged>>
    BY <1>15 DEF Uninstall, Busy, Drain, Judging
  <2> QED BY <2>1, ExposedInvSameServer
<1>16. ASSUME NEW c \in Client, Resumes(c) PROVE ~Judging
  BY <1>16
  DEF Resumes, InstallResumes, EnableResumes, IndexErrorReported, DropTools, DropServer,
      SavedInv, Busy, Drain, Judging
<1>17. ASSUME NEW c \in Client, InstallResumes(c) PROVE ExposedInv' /\ Tells
  <2>1. ~Judging
    BY <1>16, <1>17 DEF Resumes
  <2>2. CASE EnableNow(c) \/ EnableAfterIndex(c)
    BY <1>0, <1>17, <2>1, <2>2 DEF InstallResumes
  <2>3. CASE UNCHANGED <<srv, indexing, announced>>
    BY <1>17, <2>1, <2>3, ExposedInvSameServer DEF InstallResumes, Judging
  <2> QED BY <1>17, <2>2, <2>3 DEF InstallResumes
<1>18. ASSUME NEW c \in Client, EnableResumes(c) PROVE ExposedInv' /\ Tells
  <2>1. ~Judging
    BY <1>16, <1>18 DEF Resumes
  <2>2. /\ srv'.quarantined = srv.quarantined /\ srv'.tools = srv.tools
        /\ srv'.pinned = srv.pinned /\ srv'.pins = srv.pins /\ indexing' = indexing
        /\ unjudged' = unjudged
    BY <1>18 DEF EnableResumes, TypeOK, Server
  <2>3. ~Judging' /\ ExposedInv'
    BY <2>1, <2>2 DEF ExposedInv, ApprovedAsIs, Judging
  <2> QED BY <1>18, <2>3 DEF EnableResumes, Changed
<1>19. ASSUME NEW c \in Client, IndexErrorReported(c) PROVE ExposedInv' /\ Tells
  <2>1. ~Judging /\ UNCHANGED <<srv, indexing, announced, unjudged>>
    BY <1>16, <1>19 DEF Resumes, IndexErrorReported
  <2> QED BY <2>1, ExposedInvSameServer DEF Judging
<1>20. ASSUME NEW c \in Client, DropTools(c) PROVE ExposedInv' /\ Tells
  <2>1. ~Judging /\ UNCHANGED <<indexing, announced, unjudged>> /\ (srv' = srv \/ srv'.tools = NoTools)
    BY <1>16, <1>20 DEF Resumes, DropTools, TypeOK, Server
  <2> QED BY <2>1 DEF ExposedInv, ApprovedAsIs, Judging
<1>21. ASSUME NEW c \in Client, DropServer(c) PROVE ExposedInv' /\ Tells
  <2>1. ~Judging /\ indexing' = indexing /\ srv'.tools = NoTools
    BY <1>16, <1>21 DEF Resumes, DropServer, NoServer
  <2>2. ~Judging' /\ ExposedInv'
    BY <2>1 DEF ExposedInv, ApprovedAsIs, Judging
  <2> QED BY <1>21, <2>2 DEF DropServer, Changed
<1>22. CASE UNCHANGED vars
  BY <1>22 DEF vars, ExposedInv, Judging
<1> QED
  BY <1>1, <1>2, <1>3, <1>4, <1>5, <1>6, <1>7, <1>8, <1>9, <1>10, <1>11, <1>12, <1>13, <1>14,
     <1>15, <1>17, <1>18, <1>19, <1>20, <1>21, <1>22, <1>23, <1>24
  DEF Next, IndexStep, Resumes

\* No host ever hears of a tool, or of a definition, that its user did not approve,
\* whatever re-indexes, drifts, approvals, uninstalls and restarts overlap, but for
\* what a fault between two commits left without a verdict.
THEOREM ToldCorrect == Spec => ToldIsApproved
<1> DEFINE Approved == \A t \in Tool : announced'[t] \notin {Absent, announced[t]} =>
                         \/ unjudged'
                         \/ /\ srv'.pinned /\ ~srv'.quarantined
                            /\ announced'[t] = srv'.pins[t] /\ announced'[t] = srv'.tools[t]
<1>1. Init => ExposedInv
  BY DEF Init, ExposedInv, ApprovedAsIs, NoServer, NoJob
<1>2. TypeOK /\ SavedInv /\ AnnouncedInv /\ ExposedInv /\ [Next]_vars => ExposedInv'
  BY ExposedInvStep
<1>3. TypeOK /\ TypeOK' /\ SavedInv /\ AnnouncedInv /\ ExposedInv /\ [Next]_vars => [Approved]_vars
  <2> SUFFICES ASSUME TypeOK, SavedInv, AnnouncedInv, ExposedInv, [Next]_vars, NEW t \in Tool,
                      announced'[t] \notin {Absent, announced[t]}, ~unjudged'
               PROVE  /\ srv'.pinned /\ ~srv'.quarantined
                      /\ announced'[t] = srv'.pins[t] /\ announced'[t] = srv'.tools[t]
    OBVIOUS
  <2>1. NoTools[t] = Absent
    BY DEF NoTools
  <2>2. announced' = Exposed(srv') /\ ~Judging' /\ ExposedInv'
    <3>1. announced' \notin {announced, NoTools}
      BY <2>1
    <3> QED BY <3>1, ExposedInvStep
  <2>3. ~srv'.quarantined /\ announced' = srv'.tools /\ srv'.tools # NoTools
    BY <2>1, <2>2 DEF Exposed
  <2> QED BY <2>2, <2>3 DEF ExposedInv, ApprovedAsIs
<1> QED
  BY <1>1, <1>2, <1>3, TypeCorrect, SavedInvHolds, AnnouncedInvHolds, PTL DEF Spec, ToldIsApproved

=============================================================================
