---------------------------- MODULE FileTransfer ----------------------------
(***************************************************************************)
(* One file transfer (src/src/transfer/filetransfer.cpp) between a sender  *)
(* and a receiver: the entry of the sender's m_outgoing, the entry of the  *)
(* receiver's m_incoming, the FILE_* frames between them, the sender's     *)
(* saved state and its sendNextChunk continuations.  Transfers have ids of *)
(* their own and share nothing, so one is enough.                          *)
(*                                                                         *)
(* Every handler runs under m_mutex and is one action.  A file is the      *)
(* sequence of its byte positions, so a file is intact iff it is           *)
(* <<0, 1, ..., FileSize - 1>>; a hash is the contents hashed; encryption  *)
(* is left out, as every chunk is decrypted under the number it was        *)
(* encrypted under.                                                        *)
(***************************************************************************)
EXTENDS Integers, Sequences, FiniteSets

CONSTANTS
    FileSize,    \* in bytes
    ChunkSize,   \* kChunkSize
    Faults,      \* may files, sessions and keys fail?
    MaxAccepts,  \* bounds: the receiver's acceptOffer
    MaxRejects,  \*         and rejectOffer calls,
    MaxPauses,   \*         pauseTransfer calls,
    MaxResumes,  \*         resumeTransfer calls,
    MaxLosses,   \*         losses of frames,
    MaxRestarts  \*         restarts of an end

ASSUME FileAssumption ==
    /\ FileSize \in Nat /\ ChunkSize \in Nat \ {0}
    /\ Faults \in BOOLEAN
    /\ {MaxAccepts, MaxRejects, MaxPauses, MaxResumes, MaxLosses, MaxRestarts} \subseteq Nat

VARIABLES
    hashing,  \* the thread that hashes the file: "idle", "running", "done"
    out,      \* the entry of m_outgoing
    posts,    \* continuations of sendNextChunk that are posted
    saved,    \* is the sender's state on disk?
    sEnd,     \* what the sender's listeners were told of the end
    sent,     \* the bytes that went out in chunks
    inc,      \* the entry of m_incoming
    rEnd,     \* what the receiver's listeners were told of the end
    final,    \* the contents of the file received
    short,    \* history: did a write or the close of that file fall short?
    toR, toS, \* frames on their way
    used      \* how much of each bound is used up

sendVars == <<hashing, out, posts, saved, sEnd, sent>>
recvVars == <<inc, rEnd, final, short>>
vars == <<sendVars, recvVars, toR, toS, used>>

\* m_outgoing: the stream is "none", "open", or "failed" once a read fell short.
NoOut == [state |-> "none", file |-> "none", pos |-> 0, bytes |-> 0, chunks |-> 0]
\* m_incoming: what was hashed and handed to the stream, whose length is bytesReceived.
NoInc == [state |-> "none", opened |-> FALSE, written |-> <<>>, chunks |-> 0]

\* The "last" flag of a chunk of n bytes.
LastIfMore(o, n) == o.bytes + n > FileSize
IsLast(o, n) == o.bytes + n >= FileSize

Frame(t, s) == [type |-> t, seq |-> s, at |-> 0, len |-> 0, last |-> FALSE]
Chunk(o, n) == [type |-> "CHUNK", seq |-> o.chunks, at |-> o.pos, len |-> n,
                last |-> IsLast(o, n)]

Original == [i \in 1 .. FileSize |-> i - 1]

Init ==
    /\ hashing = "idle" /\ out = NoOut /\ posts = 0 /\ saved = FALSE
    /\ sEnd = "none" /\ sent = {}
    /\ inc = NoInc /\ rEnd = "none" /\ final = <<>> /\ short = FALSE
    /\ toR = <<>> /\ toS = <<>>
    /\ used = [accept |-> 0, reject |-> 0, pause |-> 0, resume |-> 0, loss |-> 0, restart |-> 0]

-----------------------------------------------------------------------------
(* The sender. *)

\* sendFile: the hash is computed in a thread of its own.
SendFile ==
    /\ hashing = "idle"
    /\ hashing' = "running"
    /\ out' = [NoOut EXCEPT !.state = "Pending"]
    /\ UNCHANGED <<posts, saved, sEnd, sent, recvVars, toR, toS, used>>

\* The end of an outgoing transfer that its listeners are told of.
SenderEnds(how) == out' = NoOut /\ sEnd' = how

\* The thread's continuation, and sendFileOffer.
HashDone ==
    /\ hashing = "running"
    /\ hashing' = "done"
    /\ \/ out = NoOut /\ UNCHANGED <<out, sEnd, toR>>
       \/ out # NoOut /\ Faults /\ SenderEnds("failed") /\ UNCHANGED toR
       \/ out # NoOut /\ toR' = Append(toR, Frame("OFFER", 0)) /\ UNCHANGED <<out, sEnd>>
    /\ UNCHANGED <<posts, saved, sent, recvVars, toS, used>>

\* What a read of a chunk returns: less than a chunk at the end, and nothing after that.
ReadSize(o) ==
    IF o.file = "failed" \/ o.pos >= FileSize THEN 0
    ELSE IF o.pos + ChunkSize > FileSize THEN FileSize - o.pos ELSE ChunkSize

AfterRead(o, n) ==
    [o EXCEPT !.file = IF n < ChunkSize THEN "failed" ELSE @,
              !.pos = @ + n, !.bytes = @ + n, !.chunks = IF n > 0 THEN @ + 1 ELSE @]

\* sendNextChunk of entry o, after frames w and with p continuations posted.
CompleteEarly(o) == o.file = "none" \/ o.bytes + ChunkSize >= FileSize
CompleteSent(o) == o.file = "none" \/ o.bytes >= FileSize
SendNextChunk(o, w, p) ==
    \/ /\ o.state = "Paused"
       /\ out' = o /\ toR' = w /\ posts' = p
       /\ UNCHANGED <<sEnd, saved, sent>>
    \/ /\ o.state # "Paused" /\ CompleteSent(o)
       /\ toR' = Append(w, Frame("COMPLETE", 0)) /\ posts' = p
       /\ SenderEnds("completed") /\ saved' = FALSE
       /\ UNCHANGED sent
    \/ /\ o.state # "Paused" /\ ~CompleteSent(o)
       /\ LET n == ReadSize(o) IN
          \/ /\ n = 0
             /\ out' = AfterRead(o, n) /\ toR' = w /\ posts' = p
             /\ UNCHANGED <<sEnd, saved, sent>>
          \/ /\ n > 0 /\ Faults
             /\ SenderEnds("failed") /\ toR' = w /\ posts' = p
             /\ UNCHANGED <<saved, sent>>
          \/ /\ n > 0
             /\ out' = AfterRead(o, n)
             /\ toR' = Append(w, Chunk(o, n))
             /\ sent' = sent \cup (o.pos .. o.pos + n - 1)
             /\ posts' = p + 1
             /\ UNCHANGED <<sEnd, saved>>

\* A posted continuation runs.
Continue ==
    /\ posts > 0
    /\ \/ /\ out = NoOut
          /\ posts' = posts - 1
          /\ UNCHANGED <<out, saved, sEnd, sent, toR>>
       \/ out # NoOut /\ SendNextChunk(out, toR, posts - 1)
    /\ UNCHANGED <<hashing, recvVars, toS, used>>

\* The next frame from the receiver is of this type.
AtS(t) == toS # <<>> /\ Head(toS).type = t /\ toS' = Tail(toS)

\* FILE_ACCEPT: startStreaming opens the file and sends the first chunk.
StartStreaming ==
    /\ AtS("ACCEPT")
    /\ \/ out = NoOut /\ UNCHANGED <<out, posts, saved, sEnd, sent, toR>>
       \/ out # NoOut /\ Faults /\ SenderEnds("failed") /\ UNCHANGED <<posts, saved, sent, toR>>
       \/ out # NoOut /\ SendNextChunk([out EXCEPT !.state = "Active", !.file = "open",
                                                   !.pos = 0], toR, posts)
    /\ UNCHANGED <<hashing, recvVars, used>>

\* FILE_REJECT ends the transfer without a word.
OnReject ==
    /\ AtS("REJECT")
    /\ out' = NoOut
    /\ UNCHANGED <<hashing, posts, saved, sEnd, sent, recvVars, toR, used>>

\* removeTransferState.
KeepTransferState == UNCHANGED saved
RemoveTransferState == saved' = FALSE

\* FILE_CANCEL, or cancelTransfer.
SenderCancelled ==
    /\ IF out = NoOut THEN UNCHANGED <<out, sEnd>> ELSE SenderEnds("cancelled")
    /\ RemoveTransferState
    /\ UNCHANGED <<hashing, posts, sent, recvVars>>

SenderOnCancel == AtS("CANCEL") /\ SenderCancelled /\ UNCHANGED <<toR, used>>

SenderCancels ==
    /\ out # NoOut \/ saved
    /\ SenderCancelled
    /\ toR' = IF out = NoOut THEN toR ELSE Append(toR, Frame("CANCEL", 0))
    /\ UNCHANGED <<toS, used>>

Paused(t) == [t EXCEPT !.state = IF @ = "none" THEN @ ELSE "Paused"]

SenderOnPause ==
    /\ AtS("PAUSE")
    /\ out' = Paused(out)
    /\ UNCHANGED <<hashing, posts, saved, sEnd, sent, recvVars, toR, used>>

\* Use up one unit of a bound.
Spend(what, max) == used[what] < max /\ used' = [used EXCEPT ![what] = @ + 1]

\* The state on disk: written on a pause, read for an entry that is gone.
SaveTransferState == saved' = TRUE
LoadTransferState == saved

SenderPauses ==
    /\ out # NoOut /\ Spend("pause", MaxPauses)
    /\ out' = Paused(out)
    /\ SaveTransferState
    /\ toR' = Append(toR, Frame("PAUSE", 0))
    /\ UNCHANGED <<hashing, posts, sEnd, sent, recvVars, toS>>

\* resumeTransfer looks at m_incoming only.
SenderResumes ==
    /\ out # NoOut /\ Spend("resume", MaxResumes)
    /\ UNCHANGED <<sendVars, recvVars, toR, toS>>

\* The entry with which handleResumeRequest goes on: the one in memory, moved, or one
\* made from what is on disk.
Resumed(last) ==
    IF out # NoOut
    THEN [out EXCEPT !.state = "Active", !.chunks = last + 1,
                     !.pos = IF out.file = "open" THEN (last + 1) * ChunkSize ELSE @]
    ELSE [state |-> "Active", file |-> "open", pos |-> (last + 1) * ChunkSize,
          bytes |-> last * ChunkSize, chunks |-> last + 1]

HandleResumeRequest ==
    /\ AtS("RESUME_REQUEST")
    /\ \/ /\ out = NoOut /\ (~LoadTransferState \/ Faults)
          /\ UNCHANGED <<out, posts, saved, sEnd, sent, toR>>
       \/ /\ out # NoOut \/ LoadTransferState
          /\ LET last == Head(toS).seq IN
             SendNextChunk(Resumed(last), Append(toR, Frame("RESUME_ACK", last + 1)), posts)
    /\ UNCHANGED <<hashing, recvVars, used>>

-----------------------------------------------------------------------------
(* The receiver. *)

AtR(t) == toR # <<>> /\ Head(toR).type = t /\ toR' = Tail(toR)

ReceiverEnds(how) == inc' = NoInc /\ rEnd' = how

OnOffer ==
    /\ AtR("OFFER")
    /\ \/ inc' = [NoInc EXCEPT !.state = "Pending"]
       \/ Faults /\ UNCHANGED inc
    /\ UNCHANGED <<sendVars, rEnd, final, short, toS, used>>

\* write: nobody looks at the stream, which takes nothing more once it has failed.
Write ==
    \/ UNCHANGED short
    \/ Faults /\ short' = TRUE

\* close, unchecked too, and the rename: what the file has then.
Close(contents) ==
    \/ ~short /\ UNCHANGED short /\ final' = contents
    \/ /\ short \/ Faults
       /\ short' = TRUE
       /\ \E n \in 0 .. Len(contents) - 1 : final' = SubSeq(contents, 1, n)

\* finishReceiving: the file is kept if what went to the stream has the hash in the offer.
FinishReceiving(contents) ==
    \/ contents = Original /\ ReceiverEnds("received") /\ Close(contents)
    \/ /\ contents # Original \/ Faults
       /\ ReceiverEnds("failed") /\ UNCHANGED <<final, short>>

Wanted(f) == inc.state \in {"Pending", "Active"} /\ f.seq = inc.chunks

\* handleFileChunk.
HandleFileChunk ==
    /\ AtR("CHUNK")
    /\ LET f == Head(toR)
           contents == inc.written \o [i \in 1 .. f.len |-> f.at + i - 1]
       IN \/ ~Wanted(f) /\ UNCHANGED recvVars
          \/ /\ Wanted(f) /\ (Faults \/ Len(contents) > FileSize)
             /\ ReceiverEnds("failed") /\ UNCHANGED <<final, short>>
          \/ /\ Wanted(f) /\ Len(contents) <= FileSize /\ f.last
             /\ FinishReceiving(contents)
          \/ /\ Wanted(f) /\ Len(contents) <= FileSize /\ ~f.last
             /\ inc' = [state |-> IF inc.opened THEN inc.state ELSE "Active", opened |-> TRUE,
                        written |-> contents, chunks |-> inc.chunks + 1]
             /\ Write
             /\ UNCHANGED <<rEnd, final>>
    /\ UNCHANGED <<sendVars, toS, used>>

\* FILE_COMPLETE is logged only.
OnComplete == AtR("COMPLETE") /\ UNCHANGED <<sendVars, recvVars, toS, used>>

\* FILE_PAUSE looks at m_outgoing only.
ReceiverOnPause == AtR("PAUSE") /\ UNCHANGED <<sendVars, recvVars, toS, used>>

OnResumeAck ==
    /\ AtR("RESUME_ACK")
    /\ inc' = IF inc = NoInc THEN inc
              ELSE [inc EXCEPT !.state = "Active", !.chunks = Head(toR).seq]
    /\ UNCHANGED <<sendVars, rEnd, final, short, toS, used>>

CancelledOnceOpen == IF inc.opened THEN ReceiverEnds("cancelled") ELSE UNCHANGED <<inc, rEnd>>
ReceiverCancelled == IF inc = NoInc THEN UNCHANGED <<inc, rEnd>> ELSE ReceiverEnds("cancelled")

ReceiverOnCancel ==
    AtR("CANCEL") /\ ReceiverCancelled /\ UNCHANGED <<sendVars, final, short, toS, used>>

ReceiverCancels ==
    /\ inc # NoInc
    /\ ReceiverCancelled
    /\ toS' = Append(toS, Frame("CANCEL", 0))
    /\ UNCHANGED <<sendVars, final, short, toR, used>>

AcceptOffer ==
    /\ inc # NoInc /\ Spend("accept", MaxAccepts)
    /\ toS' = Append(toS, Frame("ACCEPT", 0))
    /\ UNCHANGED <<sendVars, recvVars, toR>>

RejectOffer ==
    /\ inc # NoInc \/ rEnd # "none"
    /\ Spend("reject", MaxRejects)
    /\ toS' = Append(toS, Frame("REJECT", 0))
    /\ inc' = NoInc
    /\ UNCHANGED <<sendVars, rEnd, final, short, toR>>

ReceiverPauses ==
    /\ inc # NoInc /\ Spend("pause", MaxPauses)
    /\ inc' = Paused(inc)
    /\ toS' = Append(toS, Frame("PAUSE", 0))
    /\ UNCHANGED <<sendVars, rEnd, final, short, toR>>

ReceiverResumes ==
    /\ inc # NoInc /\ Spend("resume", MaxResumes)
    /\ toS' = Append(toS, Frame("RESUME_REQUEST", inc.chunks))
    /\ UNCHANGED <<sendVars, recvVars, toR>>

-----------------------------------------------------------------------------
(* The world. *)

\* The link breaks with the frames on it, or a full queue drops the newest one.
Shortened(w) == IF w = <<>> THEN w ELSE SubSeq(w, 1, Len(w) - 1)
LoseFrames ==
    /\ toR # <<>> \/ toS # <<>>
    /\ Spend("loss", MaxLosses)
    /\ \/ toR' = <<>> /\ toS' = <<>>
       \/ toR' = Shortened(toR) /\ UNCHANGED toS
       \/ toS' = Shortened(toS) /\ UNCHANGED toR
    /\ UNCHANGED <<sendVars, recvVars>>

\* An end restarts: what it had in memory is gone, and so is the link.
Restart ==
    /\ Spend("restart", MaxRestarts)
    /\ toR' = <<>> /\ toS' = <<>>
    /\ \/ /\ hashing # "idle" /\ hashing' = "done" /\ out' = NoOut /\ posts' = 0
          /\ UNCHANGED <<saved, sEnd, sent, recvVars>>
       \/ inc # NoInc /\ inc' = NoInc /\ UNCHANGED <<sendVars, rEnd, final, short>>

-----------------------------------------------------------------------------

SenderGets ==
    StartStreaming \/ OnReject \/ SenderOnCancel \/ SenderOnPause \/ HandleResumeRequest

ReceiverGets ==
    \/ OnOffer \/ HandleFileChunk \/ OnComplete
    \/ ReceiverOnPause \/ OnResumeAck \/ ReceiverOnCancel

User ==
    \/ SendFile \/ SenderCancels \/ SenderPauses \/ SenderResumes
    \/ AcceptOffer \/ RejectOffer \/ ReceiverCancels \/ ReceiverPauses \/ ReceiverResumes

Next == HashDone \/ Continue \/ SenderGets \/ ReceiverGets \/ User \/ LoseFrames \/ Restart

Spec == Init /\ [][Next]_vars

\* Threads run and frames arrive; the users need not do anything.
FairSpec ==
    /\ Spec
    /\ WF_vars(HashDone) /\ WF_vars(Continue) /\ WF_vars(SenderGets) /\ WF_vars(ReceiverGets)

-----------------------------------------------------------------------------
(* Properties. *)

Frames == [type : {"OFFER", "CHUNK", "COMPLETE", "CANCEL", "PAUSE", "ACCEPT", "REJECT",
                   "RESUME_REQUEST", "RESUME_ACK"},
           seq : Nat, at : Nat, len : Nat, last : BOOLEAN]

\* The variables have their types; an entry that is gone leaves nothing behind.
TypeOK ==
    /\ hashing \in {"idle", "running", "done"}
    /\ out \in [state : {"Pending", "Active", "Paused"}, file : {"none", "open", "failed"},
                pos : Nat, bytes : Nat, chunks : Nat] \cup {NoOut}
    /\ posts \in Nat /\ saved \in BOOLEAN
    /\ sEnd \in {"none", "completed", "failed", "cancelled"}
    /\ sent \in SUBSET (0 .. FileSize - 1)
    /\ inc \in [state : {"Pending", "Active", "Paused"}, opened : BOOLEAN, written : Seq(Nat),
                chunks : Nat] \cup {NoInc}
    /\ rEnd \in {"none", "received", "failed", "cancelled"}
    /\ final \in Seq(Nat) /\ short \in BOOLEAN
    /\ toR \in Seq(Frames) /\ toS \in Seq(Frames)
    /\ used \in [{"accept", "reject", "pause", "resume", "loss", "restart"} -> Nat]

\* Accepted once and not resumed since: how a transfer is meant to go, but for losses,
\* pauses, restarts and faults.
Straight == used.accept <= 1 /\ used.resume = 0

\* What the listeners of the two ends are told is what Delivery promises, whatever is lost,
\* repeated, paused, resumed or restarted: an end that was reported is final, even with a
\* state on disk, a file said to be received is the one that was offered unless it could
\* not be written in full, and a transfer that went straight is completed only when all
\* was sent.
Promise == INSTANCE Delivery WITH
    Whole <- 0 .. FileSize - 1,
    straight <- Straight,
    sending <- out # NoOut,
    receiving <- inc # NoInc
DeliveryKept == Promise!Spec

\* Something besides the two users keeps the transfer from its end, or from telling of it.
Disturbed == used.loss > 0 \/ used.restart > 0 \/ "failed" \in {sEnd, rEnd}

\* A transfer that is accepted, perhaps twice, and neither paused nor resumed comes to an
\* end on both sides.
AcceptedEnds ==
    used.accept > 0 ~>
        (out = NoOut /\ inc = NoInc) \/ used.pause + used.resume > 0 \/ Disturbed

\* A cancelled transfer is over on both sides, for good.
CancelEndsBoth ==
    /\ sEnd = "cancelled" ~> ([](inc = NoInc) \/ Disturbed)
    /\ rEnd = "cancelled" ~> ([](out = NoOut) \/ Disturbed)

=============================================================================
