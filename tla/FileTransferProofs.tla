------------------------- MODULE FileTransferProofs -------------------------
(* Theorems about FileTransfer, for every file size, chunk size and bound. *)
EXTENDS FileTransfer, TLAPS

-----------------------------------------------------------------------------
(* Types. *)

Entries == [state : {"Pending", "Active", "Paused"}, file : {"none", "open", "failed"},
            pos : Nat, bytes : Nat, chunks : Nat]

SenderTypes ==
    /\ out \in Entries \cup {NoOut}
    /\ posts \in Nat /\ saved \in BOOLEAN
    /\ sEnd \in {"none", "completed", "failed", "cancelled"}
    /\ sent \in SUBSET (0 .. FileSize - 1)

LEMMA EntriesExist == NoOut \notin Entries
BY DEF Entries, NoOut

\* A read gets at most what is left of the file, and a short one all of it.
LEMMA ReadSizeBound ==
    ASSUME NEW o \in Entries
    PROVE  /\ ReadSize(o) \in Nat /\ ReadSize(o) <= ChunkSize
           /\ ReadSize(o) > 0 => o.pos + ReadSize(o) <= FileSize
           /\ ReadSize(o) > 0 /\ ReadSize(o) < ChunkSize => o.pos + ReadSize(o) = FileSize
BY FileAssumption DEF ReadSize, Entries

LEMMA AfterReadType ==
    ASSUME NEW o \in Entries, NEW n \in Nat
    PROVE  /\ AfterRead(o, n) \in Entries
           /\ AfterRead(o, n).file \in {o.file, "failed"}
           /\ n >= ChunkSize => AfterRead(o, n).file = o.file
           /\ AfterRead(o, n).pos = o.pos + n
           /\ AfterRead(o, n).bytes = o.bytes + n
<1> DEFINE file == IF n < ChunkSize THEN "failed" ELSE o.file
           chunks == IF n > 0 THEN o.chunks + 1 ELSE o.chunks
<1>1. o = [state |-> o.state, file |-> o.file, pos |-> o.pos, bytes |-> o.bytes,
           chunks |-> o.chunks]
  BY DEF Entries
<1>2. AfterRead(o, n) = [state |-> o.state, file |-> file, pos |-> o.pos + n,
                         bytes |-> o.bytes + n, chunks |-> chunks]
  <2> HIDE DEF file, chunks
  <2>1. AfterRead(o, n) = [o EXCEPT !.file = file, !.pos = o.pos + n, !.bytes = o.bytes + n,
                                    !.chunks = chunks]
    BY DEF AfterRead, file, chunks
  <2>2. o \in Entries
    OBVIOUS
  <2> QED
    BY <2>1, <2>2 DEF Entries
<1>3. /\ o.state \in {"Pending", "Active", "Paused"} /\ o.file \in {"none", "open", "failed"}
      /\ o.pos + n \in Nat /\ o.bytes + n \in Nat /\ chunks \in Nat
  BY DEF Entries
<1>4. file \in {"none", "open", "failed"} /\ file \in {o.file, "failed"}
  BY <1>3
<1>5. n >= ChunkSize => file = o.file
  BY FileAssumption
<1> HIDE DEF file, chunks
<1> QED
  BY <1>2, <1>3, <1>4, <1>5 DEF Entries

LEMMA FrameType ==
    ASSUME NEW t \in {"OFFER", "COMPLETE", "CANCEL", "PAUSE", "ACCEPT", "REJECT",
                      "RESUME_REQUEST", "RESUME_ACK"},
           NEW s \in Nat
    PROVE  Frame(t, s) \in Frames
BY DEF Frame, Frames

LEMMA ChunkType ==
    ASSUME NEW o \in Entries, NEW n \in Nat
    PROVE  Chunk(o, n) \in Frames
<1>1. o.chunks \in Nat /\ o.pos \in Nat /\ IsLast(o, n) \in BOOLEAN
  BY DEF IsLast, Entries
<1> QED
  BY <1>1 DEF Chunk, Frames

LEMMA AppendType ==
    ASSUME NEW w \in Seq(Frames), NEW f \in Frames
    PROVE  Append(w, f) \in Seq(Frames)
OBVIOUS

LEMMA SendNextChunkType ==
    ASSUME SenderTypes, NEW o \in Entries, NEW w \in Seq(Frames), NEW p \in Nat,
           SendNextChunk(o, w, p)
    PROVE  SenderTypes' /\ toR' \in Seq(Frames)
<1> DEFINE n == ReadSize(o)
<1>1. CASE o.state = "Paused" /\ out' = o /\ toR' = w /\ posts' = p
           /\ UNCHANGED <<sEnd, saved, sent>>
  BY <1>1 DEF SenderTypes
<1>2. CASE toR' = Append(w, Frame("COMPLETE", 0)) /\ posts' = p /\ SenderEnds("completed")
           /\ saved' = FALSE /\ UNCHANGED sent
  <2>1. Frame("COMPLETE", 0) \in Frames
    BY FrameType
  <2>2. toR' \in Seq(Frames)
    BY <1>2, <2>1, AppendType
  <2> QED
    BY <1>2, <2>2 DEF SenderTypes, SenderEnds
<1>3. CASE out' = AfterRead(o, n) /\ toR' = w /\ posts' = p /\ UNCHANGED <<sEnd, saved, sent>>
  BY <1>3, ReadSizeBound, AfterReadType DEF SenderTypes
<1>4. CASE SenderEnds("failed") /\ toR' = w /\ posts' = p /\ UNCHANGED <<saved, sent>>
  BY <1>4 DEF SenderTypes, SenderEnds
<1>5. CASE /\ n > 0 /\ out' = AfterRead(o, n) /\ toR' = Append(w, Chunk(o, n))
           /\ sent' = sent \cup (o.pos .. o.pos + n - 1) /\ posts' = p + 1
           /\ UNCHANGED <<sEnd, saved>>
  <2>1. n \in Nat /\ o.pos \in Nat /\ o.pos + n <= FileSize
    BY <1>5, ReadSizeBound DEF Entries
  <2>2. Chunk(o, n) \in Frames /\ AfterRead(o, n) \in Entries
    BY <2>1, ChunkType, AfterReadType
  <2>3. o.pos .. o.pos + n - 1 \subseteq 0 .. FileSize - 1
    BY <2>1, FileAssumption
  <2>4. toR' \in Seq(Frames)
    BY <1>5, <2>2, AppendType
  <2>5. sent' \in SUBSET (0 .. FileSize - 1)
    BY <1>5, <2>3 DEF SenderTypes
  <2>6. posts' \in Nat /\ out' \in Entries /\ saved' \in BOOLEAN /\ sEnd' = sEnd
    BY <1>5, <2>2 DEF SenderTypes
  <2> QED
    BY <2>4, <2>5, <2>6 DEF SenderTypes
<1> QED
  BY <1>1, <1>2, <1>3, <1>4, <1>5 DEF SendNextChunk

Arrivals == [state : {"Pending", "Active", "Paused"}, opened : BOOLEAN, written : Seq(Nat),
             chunks : Nat]

ReceiverTypes ==
    /\ inc \in Arrivals \cup {NoInc}
    /\ rEnd \in {"none", "received", "failed", "cancelled"}
    /\ final \in Seq(Nat) /\ short \in BOOLEAN

BoundTypes == used \in [{"accept", "reject", "pause", "resume", "loss", "restart"} -> Nat]

WireTypes == toR \in Seq(Frames) /\ toS \in Seq(Frames)

Types ==
    /\ hashing \in {"idle", "running", "done"}
    /\ SenderTypes /\ ReceiverTypes /\ WireTypes /\ BoundTypes

LEMMA TypesSuffice == Types => TypeOK
BY DEF Types, TypeOK, SenderTypes, ReceiverTypes, WireTypes, BoundTypes, Entries, Arrivals

LEMMA ArrivalsExist == NoInc \notin Arrivals
BY DEF Arrivals, NoInc

LEMMA SpendType ==
    ASSUME BoundTypes, NEW what \in {"accept", "reject", "pause", "resume", "loss", "restart"},
           NEW max, Spend(what, max)
    PROVE  BoundTypes' /\ used' = [used EXCEPT ![what] = @ + 1]
BY DEF BoundTypes, Spend

LEMMA TailType ==
    ASSUME NEW w \in Seq(Frames), w # <<>>
    PROVE  /\ Head(w) \in Frames /\ Tail(w) \in Seq(Frames)
           /\ \A i \in DOMAIN Tail(w) : i + 1 \in DOMAIN w /\ Tail(w)[i] = w[i + 1]
OBVIOUS

LEMMA ShortenedType ==
    ASSUME NEW w \in Seq(Frames)
    PROVE  /\ Shortened(w) \in Seq(Frames)
           /\ \A i \in DOMAIN Shortened(w) : i \in DOMAIN w /\ Shortened(w)[i] = w[i]
BY DEF Shortened

LEMMA PausedOutType ==
    ASSUME SenderTypes
    PROVE  /\ Paused(out) \in Entries \cup {NoOut} /\ (Paused(out) = NoOut <=> out = NoOut)
           /\ Paused(out).file = out.file /\ Paused(out).pos = out.pos
           /\ Paused(out).bytes = out.bytes
<1>1. ASSUME out = NoOut PROVE Paused(out) = out
  <2>1. NoOut \in [state : {"none"}, file : {"none"}, pos : Nat, bytes : Nat, chunks : Nat]
    BY DEF NoOut
  <2>2. NoOut.state = "none" /\ [NoOut EXCEPT !.state = "none"] = NoOut
    BY <2>1
  <2>3. Paused(NoOut) = [NoOut EXCEPT !.state = "none"]
    BY <2>2 DEF Paused
  <2> QED
    BY <1>1, <2>2, <2>3
<1>2. ASSUME out \in Entries
      PROVE  /\ Paused(out) \in Entries /\ Paused(out).file = out.file
             /\ Paused(out).pos = out.pos /\ Paused(out).bytes = out.bytes
  BY <1>2 DEF Entries, Paused
<1> QED
  BY <1>1, <1>2, EntriesExist DEF SenderTypes

LEMMA PausedIncType ==
    ASSUME ReceiverTypes
    PROVE  Paused(inc) \in Arrivals \cup {NoInc} /\ (Paused(inc) = NoInc <=> inc = NoInc)
<1>1. ASSUME inc = NoInc PROVE Paused(inc) = inc
  <2>1. NoInc \in [state : {"none"}, opened : BOOLEAN, written : {<<>>}, chunks : Nat]
    BY DEF NoInc
  <2>2. NoInc.state = "none" /\ [NoInc EXCEPT !.state = "none"] = NoInc
    BY <2>1
  <2>3. Paused(NoInc) = [NoInc EXCEPT !.state = "none"]
    BY <2>2 DEF Paused
  <2> QED
    BY <1>1, <2>2, <2>3
<1>2. ASSUME inc \in Arrivals PROVE Paused(inc) \in Arrivals
  BY <1>2 DEF Arrivals, Paused
<1> QED
  BY <1>1, <1>2, ArrivalsExist DEF ReceiverTypes

\* The entries that sendNextChunk is called with.
LEMMA StartedType ==
    ASSUME SenderTypes, out # NoOut
    PROVE  /\ [out EXCEPT !.state = "Active", !.file = "open", !.pos = 0] \in Entries
           /\ out \in Entries
BY DEF SenderTypes, Entries

LEMMA ResumedType ==
    ASSUME SenderTypes, NEW last \in Nat
    PROVE  Resumed(last) \in Entries
<1>1. last + 1 \in Nat /\ (last + 1) * ChunkSize \in Nat /\ last * ChunkSize \in Nat
  BY FileAssumption
<1> DEFINE at == (last + 1) * ChunkSize
           done == last * ChunkSize
<1>2. Resumed(last) = IF out # NoOut
          THEN [out EXCEPT !.state = "Active", !.chunks = last + 1,
                           !.pos = IF out.file = "open" THEN at ELSE out.pos]
          ELSE [state |-> "Active", file |-> "open", pos |-> at, bytes |-> done,
                chunks |-> last + 1]
  BY DEF Resumed
<1>3. at \in Nat /\ done \in Nat /\ last + 1 \in Nat
  BY <1>1
<1> HIDE DEF at, done
<1>4. CASE out # NoOut
  <2>1. out \in Entries /\ (IF out.file = "open" THEN at ELSE out.pos) \in Nat
    BY <1>3, <1>4 DEF SenderTypes, Entries
  <2> QED
    BY <1>2, <1>3, <1>4, <2>1 DEF Entries
<1>5. CASE out = NoOut
  BY <1>2, <1>3, <1>5 DEF Entries
<1> QED
  BY <1>4, <1>5

LEMMA TypeInit == Init => Types
<1> SUFFICES ASSUME Init PROVE Types
  OBVIOUS
<1>1. SenderTypes /\ ReceiverTypes
  <2>1. {} \in SUBSET (0 .. FileSize - 1) /\ <<>> \in Seq(Nat)
    OBVIOUS
  <2> QED
    BY <2>1 DEF Init, SenderTypes, ReceiverTypes
<1>2. WireTypes /\ BoundTypes
  BY DEF Init, WireTypes, BoundTypes
<1> QED
  BY <1>1, <1>2 DEF Init, Types

LEMMA NewArrivalType == [NoInc EXCEPT !.state = "Pending"] \in Arrivals
<1>1. NoInc \in [state : {"none"}, opened : BOOLEAN, written : Seq(Nat), chunks : Nat]
  BY DEF NoInc
<1> QED
  BY <1>1 DEF Arrivals

LEMMA ArrivalFields ==
    ASSUME ReceiverTypes
    PROVE  inc.written \in Seq(Nat) /\ inc.chunks \in Nat
<1>1. NoInc.written \in Seq(Nat) /\ NoInc.chunks \in Nat
  BY DEF NoInc
<1>2. inc \in Arrivals => inc.written \in Seq(Nat) /\ inc.chunks \in Nat
  BY DEF Arrivals
<1> QED
  BY <1>1, <1>2 DEF ReceiverTypes

\* The next frame is of a known shape, and the rest of them still are.
LEMMA ArrivalType ==
    ASSUME WireTypes
    PROVE  /\ \A t : AtS(t) => Head(toS) \in Frames /\ toS' \in Seq(Frames)
           /\ \A t : AtR(t) => Head(toR) \in Frames /\ toR' \in Seq(Frames)
BY TailType DEF WireTypes, AtS, AtR

LEMMA SenderTypeStep ==
    ASSUME SenderTypes, WireTypes, hashing \in {"idle", "running", "done"},
           HashDone \/ Continue \/ SenderGets \/ SendFile
    PROVE  SenderTypes' /\ WireTypes' /\ hashing' \in {"idle", "running", "done"}
<1>1. CASE SendFile
  BY <1>1 DEF SendFile, SenderTypes, WireTypes, Entries, NoOut
<1>2. CASE HashDone
  <2>1. Append(toR, Frame("OFFER", 0)) \in Seq(Frames)
    BY FrameType, AppendType DEF WireTypes
  <2> QED
    BY <1>2, <2>1 DEF HashDone, SenderEnds, SenderTypes, WireTypes
<1>3. CASE Continue
  <2>1. CASE out = NoOut /\ posts' = posts - 1 /\ UNCHANGED <<out, saved, sEnd, sent, toR>>
    BY <1>3, <2>1 DEF Continue, SenderTypes, WireTypes
  <2>2. CASE out # NoOut /\ SendNextChunk(out, toR, posts - 1)
    <3>1. out \in Entries /\ posts - 1 \in Nat
      BY <1>3, <2>2 DEF Continue, SenderTypes
    <3> QED
      BY <1>3, <2>2, <3>1, SendNextChunkType DEF Continue, WireTypes
  <2> QED
    BY <1>3, <2>1, <2>2 DEF Continue
<1>4. CASE StartStreaming
  <2>1. toS' \in Seq(Frames) /\ hashing' = hashing
    BY <1>4, ArrivalType DEF StartStreaming
  <2>2. CASE UNCHANGED <<out, posts, saved, sEnd, sent, toR>>
    BY <2>1, <2>2 DEF SenderTypes, WireTypes
  <2>3. CASE SenderEnds("failed") /\ UNCHANGED <<posts, saved, sent, toR>>
    BY <2>1, <2>3 DEF SenderEnds, SenderTypes, WireTypes
  <2>4. CASE /\ out # NoOut
             /\ SendNextChunk([out EXCEPT !.state = "Active", !.file = "open", !.pos = 0],
                              toR, posts)
    <3>1. toR \in Seq(Frames) /\ posts \in Nat
      BY DEF SenderTypes, WireTypes
    <3> QED
      BY <2>1, <2>4, <3>1, StartedType, SendNextChunkType DEF WireTypes
  <2> QED
    BY <1>4, <2>2, <2>3, <2>4 DEF StartStreaming
<1>5. CASE OnReject
  BY <1>5, ArrivalType DEF OnReject, SenderTypes, WireTypes
<1>6. CASE SenderOnCancel
  BY <1>6, ArrivalType
     DEF SenderOnCancel, SenderCancelled, RemoveTransferState, SenderEnds, SenderTypes,
            WireTypes
<1>7. CASE SenderOnPause
  <2>1. toS' \in Seq(Frames) /\ out' = Paused(out)
        /\ UNCHANGED <<hashing, posts, saved, sEnd, sent, toR>>
    BY <1>7, ArrivalType DEF SenderOnPause
  <2>2. Paused(out) \in Entries \cup {NoOut}
    BY PausedOutType
  <2> QED
    BY <2>1, <2>2 DEF SenderTypes, WireTypes
<1>8. CASE HandleResumeRequest
  <2>1. toS' \in Seq(Frames) /\ hashing' = hashing /\ Head(toS).seq \in Nat
    BY <1>8, ArrivalType DEF HandleResumeRequest, Frames
  <2>2. CASE UNCHANGED <<out, posts, saved, sEnd, sent, toR>>
    BY <2>1, <2>2 DEF SenderTypes, WireTypes
  <2> DEFINE last == Head(toS).seq
             w == Append(toR, Frame("RESUME_ACK", last + 1))
  <2>3. CASE SendNextChunk(Resumed(last), w, posts)
    <3>1. w \in Seq(Frames) /\ posts \in Nat
      BY <2>1, FrameType, AppendType DEF SenderTypes, WireTypes
    <3>2. Resumed(last) \in Entries
      BY <2>1, ResumedType
    <3> HIDE DEF last, w
    <3> QED
      BY <2>1, <2>3, <3>1, <3>2, SendNextChunkType DEF WireTypes
  <2> QED
    BY <1>8, <2>2, <2>3 DEF HandleResumeRequest
<1> QED
  BY <1>1, <1>2, <1>3, <1>4, <1>5, <1>6, <1>7, <1>8 DEF SenderGets

LEMMA ReceiverTypeStep ==
    ASSUME ReceiverTypes, WireTypes, ReceiverGets
    PROVE  ReceiverTypes' /\ WireTypes'
<1>1. CASE OnOffer
  <2>1. [NoInc EXCEPT !.state = "Pending"] \in Arrivals
    BY NewArrivalType
  <2> QED
    BY <1>1, <2>1, ArrivalType DEF OnOffer, ReceiverTypes, WireTypes
<1>2. CASE HandleFileChunk
  <2> DEFINE f == Head(toR)
             contents == inc.written \o [i \in 1 .. f.len |-> f.at + i - 1]
  <2>1. toR' \in Seq(Frames) /\ toS' = toS /\ f \in Frames
    BY <1>2, ArrivalType DEF HandleFileChunk
  <2>2. f.len \in Nat /\ f.at \in Nat
    BY <2>1 DEF Frames
  <2>3. [i \in 1 .. f.len |-> f.at + i - 1] \in Seq(Nat)
    BY <2>2
  <2>4. inc.written \in Seq(Nat) /\ inc.chunks \in Nat
    BY ArrivalFields
  <2>5. contents \in Seq(Nat)
    BY <2>3, <2>4
  <2> HIDE DEF contents
  <2>6. CASE UNCHANGED recvVars
    BY <2>1, <2>6 DEF recvVars, ReceiverTypes, WireTypes
  <2>7. CASE ReceiverEnds("failed") /\ UNCHANGED <<final, short>>
    BY <2>1, <2>7 DEF ReceiverEnds, ReceiverTypes, WireTypes
  <2>8. CASE ReceiverEnds("received") /\ Close(contents)
    <3>1. final' \in Seq(Nat)
      <4>1. CASE final' = contents
        BY <2>5, <4>1
      <4>2. CASE \E n \in 0 .. Len(contents) - 1 : final' = SubSeq(contents, 1, n)
        BY <2>5, <4>2
      <4> QED
        BY <2>8, <4>1, <4>2 DEF Close
    <3>2. short' \in BOOLEAN
      BY <2>8 DEF Close, ReceiverTypes
    <3> QED
      BY <2>1, <2>8, <3>1, <3>2 DEF ReceiverEnds, ReceiverTypes, WireTypes
  <2>9. CASE /\ Wanted(f)
             /\ inc' = [state |-> IF inc.opened THEN inc.state ELSE "Active", opened |-> TRUE,
                        written |-> contents, chunks |-> inc.chunks + 1]
             /\ Write
             /\ UNCHANGED <<rEnd, final>>
    <3>1. inc' \in Arrivals
      BY <2>4, <2>5, <2>9 DEF Arrivals, Wanted
    <3>2. short' \in BOOLEAN
      BY <2>9 DEF Write, ReceiverTypes
    <3> QED
      BY <2>1, <2>9, <3>1, <3>2 DEF ReceiverTypes, WireTypes
  <2> QED
    BY <1>2, <2>6, <2>7, <2>8, <2>9 DEF HandleFileChunk, FinishReceiving, contents
<1>3. CASE OnComplete \/ ReceiverOnPause
  BY <1>3, ArrivalType DEF OnComplete, ReceiverOnPause, recvVars, ReceiverTypes, WireTypes
<1>4. CASE OnResumeAck
  <2>1. toR' \in Seq(Frames) /\ Head(toR).seq \in Nat
    BY <1>4, ArrivalType DEF OnResumeAck, Frames
  <2> QED
    BY <1>4, <2>1 DEF OnResumeAck, ReceiverTypes, WireTypes, Arrivals
<1>5. CASE ReceiverOnCancel
  BY <1>5, ArrivalType
     DEF ReceiverOnCancel, ReceiverCancelled, ReceiverEnds, ReceiverTypes, WireTypes
<1> QED
  BY <1>1, <1>2, <1>3, <1>4, <1>5 DEF ReceiverGets

LEMMA UserTypeStep ==
    ASSUME Types, User, ~SendFile
    PROVE  Types'
<1>1. /\ hashing \in {"idle", "running", "done"}
      /\ SenderTypes /\ ReceiverTypes /\ WireTypes /\ BoundTypes
  BY DEF Types
<1>2. \A t \in {"CANCEL", "PAUSE", "ACCEPT", "REJECT"} :
          Append(toR, Frame(t, 0)) \in Seq(Frames) /\ Append(toS, Frame(t, 0)) \in Seq(Frames)
  BY <1>1, FrameType, AppendType DEF WireTypes
<1>3. CASE SenderCancels
  BY <1>1, <1>2, <1>3
     DEF Types, SenderCancels, SenderCancelled, RemoveTransferState, SenderEnds, recvVars,
         SenderTypes,
         ReceiverTypes, WireTypes, BoundTypes
<1>4. CASE SenderPauses
  <2>1. BoundTypes'
    BY <1>1, <1>4, SpendType DEF SenderPauses
  <2>2. out' \in Entries \cup {NoOut}
    BY <1>1, <1>4, PausedOutType DEF SenderPauses
  <2>3. UNCHANGED <<hashing, posts, sEnd, sent, inc, rEnd, final, short, toS>> /\ saved' = TRUE
        /\ toR' = Append(toR, Frame("PAUSE", 0))
    BY <1>4 DEF SenderPauses, SaveTransferState, recvVars
  <2> QED
    BY <1>1, <1>2, <2>1, <2>2, <2>3 DEF Types, SenderTypes, ReceiverTypes, WireTypes
<1>5. CASE SenderResumes
  <2>1. BoundTypes'
    BY <1>1, <1>5, SpendType DEF SenderResumes
  <2> QED
    BY <1>1, <1>5, <2>1
       DEF Types, SenderResumes, sendVars, recvVars, SenderTypes, ReceiverTypes, WireTypes
<1>6. CASE AcceptOffer
  <2>1. BoundTypes'
    BY <1>1, <1>6, SpendType DEF AcceptOffer
  <2> QED
    BY <1>1, <1>2, <1>6, <2>1
       DEF Types, AcceptOffer, sendVars, recvVars, SenderTypes, ReceiverTypes, WireTypes
<1>7. CASE RejectOffer
  <2>1. BoundTypes'
    BY <1>1, <1>7, SpendType DEF RejectOffer
  <2> QED
    BY <1>1, <1>2, <1>7, <2>1
       DEF Types, RejectOffer, sendVars, SenderTypes, ReceiverTypes, WireTypes
<1>8. CASE ReceiverCancels
  BY <1>1, <1>2, <1>8
     DEF Types, ReceiverCancels, ReceiverCancelled, ReceiverEnds, sendVars, SenderTypes,
         ReceiverTypes,
         WireTypes, BoundTypes
<1>9. CASE ReceiverPauses
  <2>1. BoundTypes'
    BY <1>1, <1>9, SpendType DEF ReceiverPauses
  <2>2. inc' \in Arrivals \cup {NoInc}
    BY <1>1, <1>9, PausedIncType DEF ReceiverPauses
  <2>3. UNCHANGED <<hashing, out, posts, saved, sEnd, sent, rEnd, final, short, toR>>
        /\ toS' = Append(toS, Frame("PAUSE", 0))
    BY <1>9 DEF ReceiverPauses, sendVars
  <2> QED
    BY <1>1, <1>2, <2>1, <2>2, <2>3 DEF Types, SenderTypes, ReceiverTypes, WireTypes
<1>10. CASE ReceiverResumes
  <2>1. BoundTypes'
    BY <1>1, <1>10, SpendType DEF ReceiverResumes
  <2>2. inc.chunks \in Nat
    BY <1>1, ArrivalFields
  <2>3. Append(toS, Frame("RESUME_REQUEST", inc.chunks)) \in Seq(Frames)
    BY <1>1, <2>2, FrameType, AppendType DEF WireTypes
  <2> QED
    BY <1>1, <1>10, <2>1, <2>3
       DEF Types, ReceiverResumes, sendVars, recvVars, SenderTypes, ReceiverTypes, WireTypes
<1> QED
  BY <1>3, <1>4, <1>5, <1>6, <1>7, <1>8, <1>9, <1>10 DEF User

LEMMA WorldTypeStep ==
    ASSUME Types, LoseFrames \/ Restart
    PROVE  Types'
<1>1. /\ hashing \in {"idle", "running", "done"}
      /\ SenderTypes /\ ReceiverTypes /\ WireTypes /\ BoundTypes
  BY DEF Types
<1>2. BoundTypes'
  BY <1>1, SpendType DEF LoseFrames, Restart
<1>3. Shortened(toR) \in Seq(Frames) /\ Shortened(toS) \in Seq(Frames) /\ <<>> \in Seq(Frames)
  BY <1>1, ShortenedType DEF WireTypes
<1>4. WireTypes'
  BY <1>1, <1>3 DEF LoseFrames, Restart, WireTypes
<1>5. CASE LoseFrames
  BY <1>1, <1>2, <1>4, <1>5
     DEF Types, LoseFrames, sendVars, recvVars, SenderTypes, ReceiverTypes
<1>6. CASE Restart
  <2>1. CASE /\ hashing' = "done" /\ out' = NoOut /\ posts' = 0
             /\ UNCHANGED <<saved, sEnd, sent, recvVars>>
    BY <1>1, <1>2, <1>4, <2>1 DEF Types, recvVars, SenderTypes, ReceiverTypes
  <2>2. CASE inc' = NoInc /\ UNCHANGED <<sendVars, rEnd, final, short>>
    BY <1>1, <1>2, <1>4, <2>2 DEF Types, sendVars, SenderTypes, ReceiverTypes
  <2> QED
    BY <1>6, <2>1, <2>2 DEF Restart
<1> QED
  BY <1>5, <1>6

LEMMA TypeStep ==
    ASSUME Types, [Next]_vars
    PROVE  Types'
<1>1. /\ hashing \in {"idle", "running", "done"}
      /\ SenderTypes /\ ReceiverTypes /\ WireTypes /\ BoundTypes
  BY DEF Types
<1>2. CASE HashDone \/ Continue \/ SenderGets \/ SendFile
  <2>1. UNCHANGED <<recvVars, used>>
    BY <1>2
       DEF HashDone, Continue, SenderGets, SendFile, StartStreaming, OnReject, SenderOnCancel,
                SenderCancelled, SenderOnPause, HandleResumeRequest
  <2> QED
    BY <1>1, <1>2, <2>1, SenderTypeStep DEF Types, recvVars, ReceiverTypes, BoundTypes
<1>3. CASE ReceiverGets
  <2>1. UNCHANGED <<sendVars, used>>
    BY <1>3 DEF ReceiverGets, OnOffer, HandleFileChunk, OnComplete, ReceiverOnPause, OnResumeAck,
                ReceiverOnCancel
  <2> QED
    BY <1>1, <1>3, <2>1, ReceiverTypeStep DEF Types, sendVars, SenderTypes, BoundTypes
<1>4. CASE UNCHANGED vars
  BY <1>4 DEF vars, sendVars, recvVars, Types, SenderTypes, ReceiverTypes, WireTypes, BoundTypes
<1> QED
  BY <1>2, <1>3, <1>4, UserTypeStep, WorldTypeStep DEF Next, User

\* The entries, the frames and what was written are well formed, whatever is lost, resumed or
\* restarted (FileTransfer's maps, and the fields of its frames).
THEOREM TypeCorrect == Spec => []TypeOK
<1> QED
  BY TypeInit, TypeStep, TypesSuffice, PTL DEF Spec

-----------------------------------------------------------------------------
(* What the argument for Delivery needs of the frames on their way. *)

NoneOf(w, t) == \A i \in DOMAIN w : w[i].type # t
AtMostOneOf(w, t) == \A i, j \in DOMAIN w : w[i].type = t /\ w[j].type = t => i = j

LEMMA EmptyHasNone == \A t : NoneOf(<<>>, t) /\ AtMostOneOf(<<>>, t)
BY DEF NoneOf, AtMostOneOf

LEMMA AppendHas ==
    ASSUME NEW w \in Seq(Frames), NEW f \in Frames, NEW t
    PROVE  /\ NoneOf(w, t) /\ f.type # t => NoneOf(Append(w, f), t)
           /\ AtMostOneOf(w, t) /\ f.type # t => AtMostOneOf(Append(w, f), t)
           /\ NoneOf(w, t) => AtMostOneOf(Append(w, f), t)
<1> DEFINE v == Append(w, f)
<1>1. /\ Len(v) = Len(w) + 1 /\ DOMAIN v = 1 .. Len(w) + 1 /\ DOMAIN w = 1 .. Len(w)
      /\ Len(w) \in Nat /\ \A i \in 1 .. Len(w) : v[i] = w[i]
      /\ v[Len(w) + 1] = f
  OBVIOUS
<1> HIDE DEF v
<1> QED
  BY <1>1 DEF NoneOf, AtMostOneOf, v

LEMMA TailHas ==
    ASSUME NEW w \in Seq(Frames), w # <<>>, NEW t
    PROVE  /\ NoneOf(w, t) => NoneOf(Tail(w), t)
           /\ AtMostOneOf(w, t) => AtMostOneOf(Tail(w), t)
           /\ AtMostOneOf(w, t) /\ Head(w).type = t => NoneOf(Tail(w), t)
<1> DEFINE v == Tail(w)
<1>1. /\ DOMAIN v = 1 .. Len(w) - 1 /\ DOMAIN w = 1 .. Len(w)
      /\ Len(w) \in Nat \ {0} /\ \A i \in DOMAIN v : v[i] = w[i + 1]
      /\ Head(w) = w[1]
  OBVIOUS
<1> HIDE DEF v
<1> QED
  BY <1>1 DEF NoneOf, AtMostOneOf, v

LEMMA ShortenedHas ==
    ASSUME NEW w \in Seq(Frames), NEW t
    PROVE  /\ NoneOf(w, t) => NoneOf(Shortened(w), t)
           /\ AtMostOneOf(w, t) => AtMostOneOf(Shortened(w), t)
BY ShortenedType DEF NoneOf, AtMostOneOf

\* The frames of the handlers and of the users.
LEMMA SentFrames ==
    /\ \A t \in {"OFFER", "COMPLETE", "CANCEL", "PAUSE", "ACCEPT", "REJECT", "RESUME_REQUEST",
                 "RESUME_ACK"} :
           \A s \in Nat : Frame(t, s) \in Frames /\ Frame(t, s).type = t
    /\ \A o \in Entries : \A n \in Nat : Chunk(o, n) \in Frames /\ Chunk(o, n).type = "CHUNK"
BY FrameType, ChunkType DEF Frame, Chunk

\* sendNextChunk goes on, completes or fails; its frames are not offers.
LEMMA SendNextChunkKinds ==
    ASSUME NEW o \in Entries, NEW w \in Seq(Frames), NEW p \in Nat, SendNextChunk(o, w, p)
    PROVE  /\ \/ out' \in Entries /\ sent \subseteq sent' /\ UNCHANGED <<sEnd, saved>>
              \/ /\ out' = NoOut /\ sEnd' = "completed" /\ ~saved' /\ sent' = sent
                 /\ CompleteSent(o)
              \/ out' = NoOut /\ sEnd' = "failed" /\ UNCHANGED <<saved, sent>>
           /\ \/ toR' = w
              \/ \E f \in Frames : f.type # "OFFER" /\ toR' = Append(w, f)
<1> DEFINE n == ReadSize(o)
<1>1. n \in Nat /\ AfterRead(o, n) \in Entries /\ Chunk(o, n) \in Frames
      /\ Chunk(o, n).type = "CHUNK"
  <2>1. n \in Nat
    BY ReadSizeBound
  <2> HIDE DEF n
  <2> QED
    BY <2>1, AfterReadType, SentFrames
<1>2. Frame("COMPLETE", 0) \in Frames /\ Frame("COMPLETE", 0).type = "COMPLETE"
  BY SentFrames
<1>3. CASE o.state = "Paused" /\ out' = o /\ toR' = w /\ posts' = p
           /\ UNCHANGED <<sEnd, saved, sent>>
  BY <1>3
<1>4. CASE CompleteSent(o) /\ toR' = Append(w, Frame("COMPLETE", 0)) /\ posts' = p
           /\ SenderEnds("completed") /\ saved' = FALSE /\ UNCHANGED sent
  BY <1>2, <1>4 DEF SenderEnds
<1>5. CASE out' = AfterRead(o, n) /\ toR' = w /\ posts' = p /\ UNCHANGED <<sEnd, saved, sent>>
  BY <1>1, <1>5
<1>6. CASE SenderEnds("failed") /\ toR' = w /\ posts' = p /\ UNCHANGED <<saved, sent>>
  BY <1>6 DEF SenderEnds
<1>7. CASE /\ n > 0 /\ out' = AfterRead(o, n) /\ toR' = Append(w, Chunk(o, n))
           /\ sent' = sent \cup (o.pos .. o.pos + n - 1) /\ posts' = p + 1
           /\ UNCHANGED <<sEnd, saved>>
  BY <1>1, <1>7
<1> HIDE DEF n
<1> QED
  BY <1>3, <1>4, <1>5, <1>6, <1>7 DEF SendNextChunk, n

\* What has gone out of an entry that streams in order.
Streams(o, s) ==
    /\ o.file # "none"
    /\ s = 0 .. o.bytes - 1 /\ o.pos = o.bytes /\ o.bytes <= FileSize

LEMMA SendNextChunkStreams ==
    ASSUME NEW o \in Entries, NEW w, NEW p, SendNextChunk(o, w, p), Streams(o, sent)
    PROVE  /\ out' # NoOut => Streams(out', sent')
           /\ CompleteSent(o) => sent = 0 .. FileSize - 1
<1> DEFINE n == ReadSize(o)
<1>1. n \in Nat /\ o.pos \in Nat /\ (n > 0 => o.pos + n <= FileSize)
      /\ AfterRead(o, n).file # "none" /\ AfterRead(o, n).pos = o.pos + n
      /\ AfterRead(o, n).bytes = o.bytes + n
  BY ReadSizeBound, AfterReadType DEF Streams, Entries
<1>2. o.bytes = o.pos /\ o.bytes <= FileSize /\ sent = 0 .. o.bytes - 1 /\ o.file # "none"
  BY DEF Streams
<1>3. CompleteSent(o) => sent = 0 .. FileSize - 1
  BY <1>1, <1>2, FileAssumption DEF CompleteSent
<1>4. CASE out' = o /\ sent' = sent
  BY <1>3, <1>4
<1>5. CASE out' = NoOut
  BY <1>3, <1>5
<1>6. CASE n = 0 /\ out' = AfterRead(o, n) /\ sent' = sent
  BY <1>1, <1>2, <1>3, <1>6 DEF Streams
<1>7. CASE /\ n > 0 /\ out' = AfterRead(o, n)
           /\ sent' = sent \cup (o.pos .. o.pos + n - 1)
  <2>1. sent' = 0 .. o.bytes + n - 1
    BY <1>1, <1>2, <1>7
  <2> QED
    BY <1>1, <1>2, <1>3, <1>7, <2>1 DEF Streams
<1> HIDE DEF n
<1> QED
  BY <1>4, <1>5, <1>6, <1>7 DEF SendNextChunk, SenderEnds, n

-----------------------------------------------------------------------------
(* FileTransfer implements Delivery. *)

\* Before sendFile there is nothing, and what was completed or cancelled leaves nothing that
\* could revive it.
Fresh == hashing = "idle" => out = NoOut /\ ~saved /\ sEnd = "none" /\ posts = 0 /\ sent = {}
Ended == sEnd \in {"completed", "cancelled"} => out = NoOut /\ ~saved /\ hashing # "idle"

\* There is at most one offer, and the receiver knows of nothing before it comes.
OfferedOnce ==
    /\ hashing # "done" => inc = NoInc /\ rEnd = "none" /\ NoneOf(toR, "OFFER")
    /\ AtMostOneOf(toR, "OFFER")
    /\ NoneOf(toR, "OFFER") \/ (inc = NoInc /\ rEnd = "none")

\* A straight transfer starts at the one acceptance, and streams from the beginning.
Unstarted == out.file = "none" /\ out.bytes = 0 /\ out.pos = 0 /\ posts = 0 /\ sent = {}
InOrder ==
    Straight =>
        /\ NoneOf(toS, "RESUME_REQUEST") /\ AtMostOneOf(toS, "ACCEPT")
        /\ used.accept = 0 => Unstarted /\ NoneOf(toS, "ACCEPT")
        /\ Unstarted \/ NoneOf(toS, "ACCEPT")
        /\ out # NoOut => Unstarted \/ Streams(out, sent)

DeliveryInv == Types /\ Fresh /\ Ended /\ OfferedOnce /\ InOrder

LEMMA DeliveryInvInit == Init => DeliveryInv
<1> SUFFICES ASSUME Init PROVE DeliveryInv
  OBVIOUS
<1>1. Types
  BY TypeInit
<1>2. Fresh /\ Ended
  BY DEF Init, Fresh, Ended
<1>3. OfferedOnce
  BY EmptyHasNone DEF Init, OfferedOnce
<1>4. InOrder
  <2>1. out = NoOut /\ posts = 0 /\ sent = {} /\ toS = <<>>
    BY DEF Init
  <2>2. Unstarted
    BY <2>1 DEF Unstarted, NoOut
  <2> QED
    BY <2>1, <2>2, EmptyHasNone DEF InOrder
<1> QED
  BY <1>1, <1>2, <1>3, <1>4 DEF DeliveryInv

\* The ends of the sender.
LEMMA EndsStep ==
    ASSUME Types, Fresh, Ended, [Next]_vars
    PROVE  Fresh' /\ Ended'
<1> USE DEF Fresh, Ended
<1>1. CASE UNCHANGED sendVars
  BY <1>1 DEF sendVars
<1>2. CASE SendFile
  BY <1>2 DEF SendFile
<1>3. CASE HashDone
  BY <1>3 DEF HashDone, SenderEnds
<1>4. ASSUME NEW o \in Entries, NEW w \in Seq(Frames), NEW p \in Nat, SendNextChunk(o, w, p),
             hashing' = hashing, out # NoOut \/ saved
      PROVE  Fresh' /\ Ended'
  BY <1>4, SendNextChunkKinds, EntriesExist
<1>5. CASE Continue
  <2>1. CASE UNCHANGED <<out, saved, sEnd, sent, hashing>> /\ posts > 0
    BY <2>1
  <2>2. CASE out # NoOut /\ SendNextChunk(out, toR, posts - 1) /\ hashing' = hashing /\ posts > 0
    <3>1. out \in Entries /\ toR \in Seq(Frames) /\ posts - 1 \in Nat
      BY <2>2 DEF Types, SenderTypes, WireTypes
    <3> QED
      BY <1>4, <2>2, <3>1
  <2> QED
    BY <1>5, <2>1, <2>2 DEF Continue
<1>6. CASE StartStreaming
  <2>1. CASE UNCHANGED <<out, posts, saved, sEnd, sent, hashing>>
    BY <2>1
  <2>2. CASE out # NoOut /\ SenderEnds("failed") /\ UNCHANGED <<posts, saved, sent, hashing>>
    BY <2>2 DEF SenderEnds
  <2> DEFINE o == [out EXCEPT !.state = "Active", !.file = "open", !.pos = 0]
  <2>3. CASE out # NoOut /\ SendNextChunk(o, toR, posts) /\ hashing' = hashing
    <3>1. o \in Entries /\ toR \in Seq(Frames) /\ posts \in Nat
      BY <2>3, StartedType DEF Types, SenderTypes, WireTypes
    <3> HIDE DEF o
    <3> QED
      BY <1>4, <2>3, <3>1
  <2> QED
    BY <1>6, <2>1, <2>2, <2>3 DEF StartStreaming
<1>7. CASE OnReject
  BY <1>7 DEF OnReject
<1>8. CASE SenderCancelled
  BY <1>8 DEF SenderCancelled, SenderEnds, RemoveTransferState
<1>9. CASE SenderOnPause
  BY <1>9, PausedOutType DEF SenderOnPause, Types
<1>10. CASE HandleResumeRequest
  <2>1. CASE UNCHANGED <<out, posts, saved, sEnd, sent, hashing>>
    BY <2>1
  <2> DEFINE last == Head(toS).seq
             w == Append(toR, Frame("RESUME_ACK", last + 1))
  <2>2. CASE (out # NoOut \/ saved) /\ SendNextChunk(Resumed(last), w, posts)
             /\ hashing' = hashing
    <3>1. last \in Nat
      BY <1>10, ArrivalType DEF HandleResumeRequest, Types, Frames
    <3>2. Resumed(last) \in Entries /\ posts \in Nat
      BY <3>1, ResumedType DEF Types, SenderTypes
    <3>3. w \in Seq(Frames)
      BY <3>1, FrameType, AppendType DEF Types, WireTypes
    <3> HIDE DEF last, w
    <3> QED
      BY <1>4, <2>2, <3>2, <3>3
  <2> QED
    BY <1>10, <2>1, <2>2 DEF HandleResumeRequest, LoadTransferState
<1>11. CASE SenderPauses
  BY <1>11, PausedOutType DEF SenderPauses, SaveTransferState, Types
<1>12. CASE Restart
  <2>1. CASE hashing # "idle" /\ hashing' = "done" /\ out' = NoOut /\ UNCHANGED <<saved, sEnd>>
    BY <2>1
  <2> QED
    BY <1>1, <1>12, <2>1 DEF Restart
<1>13. CASE ReceiverGets \/ LoseFrames \/ UNCHANGED vars
  BY <1>1, <1>13
     DEF ReceiverGets, OnOffer, HandleFileChunk, OnComplete, ReceiverOnPause, OnResumeAck,
            ReceiverOnCancel,
         LoseFrames, vars, sendVars
<1>14. CASE SenderOnCancel \/ SenderCancels
  BY <1>8, <1>14 DEF SenderOnCancel, SenderCancels
<1>15. CASE User
  BY <1>1, <1>2, <1>11, <1>14, <1>15
     DEF User, SenderResumes, AcceptOffer, RejectOffer, ReceiverCancels, ReceiverPauses,
         ReceiverResumes
<1> QED
  BY <1>3, <1>5, <1>6, <1>7, <1>9, <1>10, <1>12, <1>13, <1>14, <1>15 DEF Next, SenderGets

\* The offer.
LEMMA OffersStep ==
    ASSUME Types, OfferedOnce, [Next]_vars
    PROVE  OfferedOnce'
<1> USE DEF OfferedOnce
<1>1. /\ hashing \in {"idle", "running", "done"}
      /\ toR \in Seq(Frames) /\ toS \in Seq(Frames)
  BY DEF Types, WireTypes
<1>2. CASE UNCHANGED <<hashing, inc, rEnd, toR>>
  BY <1>2 DEF NoneOf, AtMostOneOf
<1>0. ASSUME hashing' = "done", \A i \in DOMAIN toR' : toR'[i].type # "OFFER"
      PROVE  OfferedOnce'
  BY <1>0 DEF NoneOf, AtMostOneOf
\* Frames that are no offers are sent, or a frame is lost or taken.
<1>3. ASSUME UNCHANGED <<hashing, inc, rEnd>>,
             NEW f \in Frames, f.type # "OFFER", toR' = Append(toR, f)
      PROVE  OfferedOnce'
  BY <1>1, <1>3, AppendHas DEF NoneOf, AtMostOneOf
<1>4. ASSUME UNCHANGED hashing, hashing = "done", toR # <<>>, toR' = Tail(toR),
             NoneOf(toR, "OFFER") \/ UNCHANGED <<inc, rEnd>> \/ Head(toR).type = "OFFER"
      PROVE  OfferedOnce'
  <2>1. /\ NoneOf(toR, "OFFER") => NoneOf(Tail(toR), "OFFER")
        /\ AtMostOneOf(Tail(toR), "OFFER")
        /\ Head(toR).type = "OFFER" => NoneOf(Tail(toR), "OFFER")
    BY <1>1, <1>4, TailHas
  <2>2. CASE NoneOf(Tail(toR), "OFFER")
    BY <1>0, <1>4, <2>2 DEF NoneOf
  <2>3. CASE inc = NoInc /\ rEnd = "none" /\ UNCHANGED <<inc, rEnd>>
    BY <1>4, <2>1, <2>3 DEF AtMostOneOf
  <2> QED
    BY <1>4, <2>1, <2>2, <2>3
<1>5. ASSUME NEW o \in Entries, NEW p \in Nat, SendNextChunk(o, toR, p),
             UNCHANGED <<hashing, inc, rEnd>>
      PROVE  OfferedOnce'
  <2>1. toR' = toR \/ \E f \in Frames : f.type # "OFFER" /\ toR' = Append(toR, f)
    BY <1>1, <1>5, SendNextChunkKinds
  <2> QED
    BY <1>2, <1>3, <1>5, <2>1
<1>6. CASE HashDone
  <2>1. CASE UNCHANGED toR
    BY <1>6, <2>1 DEF HashDone, recvVars, NoneOf, AtMostOneOf
  <2>2. CASE toR' = Append(toR, Frame("OFFER", 0))
    <3>1. NoneOf(toR, "OFFER") /\ inc = NoInc /\ rEnd = "none" /\ hashing' = "done"
          /\ UNCHANGED <<inc, rEnd>>
      BY <1>6 DEF HashDone, recvVars
    <3>2. AtMostOneOf(Append(toR, Frame("OFFER", 0)), "OFFER")
      BY <1>1, <3>1, SentFrames, AppendHas
    <3> QED
      BY <2>2, <3>1, <3>2 DEF AtMostOneOf
  <2> QED
    BY <1>6, <2>1, <2>2 DEF HashDone
<1>7. CASE Continue
  <2>1. CASE UNCHANGED toR
    BY <1>2, <1>7, <2>1 DEF Continue, recvVars
  <2>2. CASE out # NoOut /\ SendNextChunk(out, toR, posts - 1) /\ posts > 0
    <3>1. out \in Entries /\ posts - 1 \in Nat
      BY <2>2 DEF Types, SenderTypes
    <3> QED
      BY <1>5, <1>7, <2>2, <3>1 DEF Continue, recvVars
  <2> QED
    BY <1>7, <2>1, <2>2 DEF Continue
<1>8. CASE StartStreaming
  <2>1. CASE UNCHANGED toR
    BY <1>2, <1>8, <2>1 DEF StartStreaming, recvVars
  <2> DEFINE o == [out EXCEPT !.state = "Active", !.file = "open", !.pos = 0]
  <2>2. CASE out # NoOut /\ SendNextChunk(o, toR, posts)
    <3>1. o \in Entries /\ posts \in Nat
      BY <2>2, StartedType DEF Types, SenderTypes
    <3> HIDE DEF o
    <3> QED
      BY <1>5, <1>8, <2>2, <3>1 DEF StartStreaming, recvVars
  <2> QED
    BY <1>8, <2>1, <2>2 DEF StartStreaming
<1>9. CASE HandleResumeRequest
  <2> DEFINE last == Head(toS).seq
             f == Frame("RESUME_ACK", last + 1)
             w == Append(toR, f)
  <2>1. CASE UNCHANGED toR
    BY <1>2, <1>9, <2>1 DEF HandleResumeRequest, recvVars
  <2>2. CASE SendNextChunk(Resumed(last), w, posts)
    <3>1. last \in Nat
      BY <1>9, ArrivalType DEF HandleResumeRequest, Types, Frames
    <3>2. Resumed(last) \in Entries /\ posts \in Nat
      BY <3>1, ResumedType DEF Types, SenderTypes
    <3>3. f \in Frames /\ f.type # "OFFER"
      BY <3>1, SentFrames
    <3> HIDE DEF last, f
    <3>4. w \in Seq(Frames) /\ \A g \in Frames : Append(w, g) \in Seq(Frames)
      BY <1>1, <3>3, AppendType
    <3>5. /\ NoneOf(toR, "OFFER") => NoneOf(w, "OFFER")
          /\ AtMostOneOf(w, "OFFER")
      BY <1>1, <3>3, AppendHas
    <3> HIDE DEF w
    <3>6. toR' = w \/ \E g \in Frames : g.type # "OFFER" /\ toR' = Append(w, g)
      BY <2>2, <3>2, <3>4, SendNextChunkKinds
    <3>7. /\ NoneOf(toR, "OFFER") => NoneOf(toR', "OFFER")
          /\ AtMostOneOf(toR', "OFFER")
      BY <3>4, <3>5, <3>6, AppendHas
    <3>8. UNCHANGED <<hashing, inc, rEnd>>
      BY <1>9 DEF HandleResumeRequest, recvVars
    <3> QED
      BY <3>7, <3>8 DEF NoneOf, AtMostOneOf
  <2> QED
    BY <1>9, <2>1, <2>2 DEF HandleResumeRequest
<1>10. CASE OnReject \/ SenderOnCancel \/ SenderOnPause \/ SendFile
  BY <1>1, <1>10
     DEF OnReject, SenderOnCancel, SenderCancelled, SenderOnPause, SendFile, recvVars, NoneOf,
         AtMostOneOf
<1>11. CASE ReceiverGets
  <2>1. toR # <<>> /\ toR' = Tail(toR) /\ UNCHANGED hashing
    BY <1>11 DEF ReceiverGets, OnOffer, HandleFileChunk, OnComplete, ReceiverOnPause, OnResumeAck,
                 ReceiverOnCancel, AtR, sendVars
  <2>2. CASE NoneOf(toR, "OFFER")
    <3>1. CASE hashing = "done"
      BY <1>4, <2>1, <2>2, <3>1
    <3>2. CASE hashing # "done"
      <4>1. inc = NoInc /\ rEnd = "none"
        BY <3>2
      <4>2. NoInc.state = "none" /\ ~NoInc.opened
        BY DEF NoInc
      <4>3. UNCHANGED <<inc, rEnd>>
        <5>1. toR[1].type # "OFFER" /\ Head(toR) = toR[1]
          BY <1>1, <2>1, <2>2 DEF NoneOf
        <5> QED
          BY <1>11, <4>1, <4>2, <5>1
             DEF ReceiverGets, OnOffer, HandleFileChunk, Wanted, OnComplete, ReceiverOnPause, OnResumeAck,
                 ReceiverOnCancel, ReceiverCancelled, recvVars, AtR
      <4>4. NoneOf(Tail(toR), "OFFER") /\ AtMostOneOf(Tail(toR), "OFFER")
        BY <1>1, <2>1, <2>2, TailHas
      <4> QED
        BY <2>1, <4>1, <4>3, <4>4 DEF NoneOf, AtMostOneOf
    <3> QED
      BY <3>1, <3>2
  <2>3. CASE ~NoneOf(toR, "OFFER")
    <3>1. hashing = "done" /\ inc = NoInc /\ rEnd = "none"
      BY <2>3
    <3>2. NoInc.state = "none"
      BY DEF NoInc
    <3>3. UNCHANGED <<inc, rEnd>> \/ Head(toR).type = "OFFER"
      BY <1>11, <3>1, <3>2
         DEF ReceiverGets, OnOffer, HandleFileChunk, Wanted, OnComplete, ReceiverOnPause, OnResumeAck,
             ReceiverOnCancel, ReceiverCancelled, recvVars, AtR
    <3> QED
      BY <1>4, <2>1, <3>1, <3>3
  <2> QED
    BY <2>2, <2>3
<1>12. CASE SenderCancels \/ SenderPauses
  <2>1. /\ Frame("CANCEL", 0) \in Frames /\ Frame("CANCEL", 0).type # "OFFER"
        /\ Frame("PAUSE", 0) \in Frames /\ Frame("PAUSE", 0).type # "OFFER"
    BY SentFrames
  <2>2. UNCHANGED <<hashing, inc, rEnd>>
    BY <1>12 DEF SenderCancels, SenderCancelled, SenderPauses, recvVars
  <2>3. toR' = toR \/ toR' = Append(toR, Frame("CANCEL", 0)) \/ toR' = Append(toR, Frame("PAUSE", 0))
    BY <1>12 DEF SenderCancels, SenderPauses
  <2> QED
    BY <1>2, <1>3, <2>1, <2>2, <2>3
<1>13. CASE SenderResumes \/ AcceptOffer \/ ReceiverResumes \/ UNCHANGED vars
  BY <1>2, <1>13 DEF SenderResumes, AcceptOffer, ReceiverResumes, sendVars, recvVars, vars
<1>14. CASE RejectOffer \/ ReceiverCancels \/ ReceiverPauses
  \* The receiver knows of the transfer, so that its offer is not on its way.
  <2>1. UNCHANGED <<hashing, toR>>
    BY <1>14 DEF RejectOffer, ReceiverCancels, ReceiverPauses, sendVars
  <2>2. inc # NoInc \/ rEnd # "none"
    BY <1>14 DEF RejectOffer, ReceiverCancels, ReceiverPauses
  <2>3. NoneOf(toR, "OFFER") /\ hashing = "done"
    BY <2>2
  <2> QED
    BY <1>0, <2>1, <2>3 DEF NoneOf
<1>15. CASE LoseFrames
  <2>1. toR' = <<>> \/ toR' = Shortened(toR) \/ toR' = toR
    BY <1>15 DEF LoseFrames
  <2>2. /\ NoneOf(toR, "OFFER") => NoneOf(toR', "OFFER")
        /\ AtMostOneOf(toR', "OFFER")
    BY <1>1, <2>1, EmptyHasNone, ShortenedHas
  <2>3. UNCHANGED <<hashing, inc, rEnd>>
    BY <1>15 DEF LoseFrames, sendVars, recvVars
  <2> QED
    BY <2>2, <2>3 DEF NoneOf, AtMostOneOf
<1>16. CASE Restart
  <2>1. toR' = <<>>
    BY <1>16 DEF Restart
  <2>2. \A i \in DOMAIN toR' : toR'[i].type # "OFFER"
    BY <2>1
  <2>3. hashing' = "done" \/ (hashing' = hashing /\ inc # NoInc)
    BY <1>16 DEF Restart, sendVars
  <2> QED
    BY <1>0, <2>2, <2>3
<1> QED
  BY <1>6, <1>7, <1>8, <1>9, <1>10, <1>11, <1>12, <1>13, <1>14, <1>15, <1>16
     DEF Next, SenderGets, User

\* The frames that InOrder is about do not become more.
FewerToS ==
    \A t \in {"ACCEPT", "RESUME_REQUEST"} :
        /\ NoneOf(toS, t) => NoneOf(toS', t)
        /\ AtMostOneOf(toS, t) => AtMostOneOf(toS', t)

StillStraight == Straight' => Straight /\ used'.accept = used.accept

LEMMA FewerCases ==
    ASSUME Types
    PROVE  /\ toS' = toS \/ toS' = <<>> \/ toS' = Shortened(toS) => FewerToS
           /\ toS # <<>> /\ toS' = Tail(toS) => FewerToS
           /\ \A f \in Frames :
                  f.type \notin {"ACCEPT", "RESUME_REQUEST"} /\ toS' = Append(toS, f) => FewerToS
<1>1. toS \in Seq(Frames)
  BY DEF Types, WireTypes
<1>2. toS' = toS \/ toS' = <<>> \/ toS' = Shortened(toS) => FewerToS
  BY <1>1, EmptyHasNone, ShortenedHas DEF FewerToS, NoneOf, AtMostOneOf
<1>3. toS # <<>> /\ toS' = Tail(toS) => FewerToS
  BY <1>1, TailHas DEF FewerToS
<1>4. ASSUME NEW f \in Frames, f.type \notin {"ACCEPT", "RESUME_REQUEST"}, toS' = Append(toS, f)
      PROVE  FewerToS
  BY <1>1, <1>4, AppendHas DEF FewerToS
<1> QED
  BY <1>2, <1>3, <1>4

\* The sender's entry stays as it is, or goes.
LEMMA EntryKept ==
    ASSUME InOrder, FewerToS, StillStraight, UNCHANGED sent, posts' \in {posts, 0},
           \/ out' = NoOut
           \/ /\ out # NoOut /\ out'.file = out.file /\ out'.pos = out.pos
              /\ out'.bytes = out.bytes
    PROVE  InOrder'
<1>1. NoOut.file = "none" /\ NoOut.bytes = 0 /\ NoOut.pos = 0
  BY DEF NoOut
<1>2. Unstarted => Unstarted'
  BY <1>1 DEF Unstarted
<1>3. out' # NoOut /\ Streams(out, sent) => Streams(out', sent')
  BY DEF Streams
<1>4. SUFFICES ASSUME Straight' PROVE InOrder'
  BY DEF InOrder
<1>5. Straight /\ used'.accept = used.accept
  BY <1>4 DEF StillStraight
<1>6. NoneOf(toS', "RESUME_REQUEST") /\ AtMostOneOf(toS', "ACCEPT")
  BY <1>5 DEF InOrder, FewerToS
<1>7. used'.accept = 0 => Unstarted' /\ NoneOf(toS', "ACCEPT")
  BY <1>2, <1>5 DEF InOrder, FewerToS
<1>8. Unstarted' \/ NoneOf(toS', "ACCEPT")
  BY <1>2, <1>5 DEF InOrder, FewerToS
<1>9. out' # NoOut => Unstarted' \/ Streams(out', sent')
  <2>1. CASE out # NoOut
    BY <1>2, <1>3, <1>5, <2>1 DEF InOrder
  <2>2. CASE out = NoOut
    BY <2>2
  <2> QED
    BY <2>1, <2>2
<1> QED
  BY <1>6, <1>7, <1>8, <1>9 DEF InOrder

\* The sender streams: the acceptance is gone.
LEMMA EntryStreams ==
    ASSUME Types, InOrder, FewerToS, UNCHANGED used, Straight => NoneOf(toS', "ACCEPT"),
           Straight => used.accept # 0,
           Straight /\ out' # NoOut => Streams(out', sent')
    PROVE  InOrder'
<1>1. Straight' = Straight /\ used'.accept = used.accept
  BY DEF Straight
<1>2. SUFFICES ASSUME Straight PROVE InOrder'
  BY <1>1 DEF InOrder
<1>3. NoneOf(toS', "RESUME_REQUEST") /\ AtMostOneOf(toS', "ACCEPT")
  BY <1>2 DEF InOrder, FewerToS
<1> QED
  BY <1>1, <1>2, <1>3 DEF InOrder

\* The stream.
LEMMA InOrderStep ==
    ASSUME Types, Fresh, InOrder, [Next]_vars
    PROVE  InOrder'
<1>1. /\ toR \in Seq(Frames) /\ toS \in Seq(Frames) /\ BoundTypes /\ SenderTypes
      /\ posts \in Nat
  BY DEF Types, WireTypes, SenderTypes
<1>2. UNCHANGED used => StillStraight
  BY DEF StillStraight, Straight
<1>3. CASE SendFile
  <2>1. out = NoOut /\ posts = 0 /\ sent = {} /\ UNCHANGED <<posts, sent, toS, used>>
    BY <1>3 DEF SendFile, Fresh
  <2>2. out'.file = "none" /\ out'.pos = 0 /\ out'.bytes = 0
    BY <1>3 DEF SendFile, NoOut
  <2>3. Unstarted'
    BY <2>1, <2>2 DEF Unstarted
  <2> QED
    BY <2>1, <2>3 DEF InOrder, Straight
<1>4. CASE HashDone
  <2>1. FewerToS /\ UNCHANGED <<used, posts, sent>>
    BY <1>4, FewerCases DEF HashDone
  <2>2. out' = NoOut \/ (out # NoOut /\ out' = out)
    BY <1>4 DEF HashDone, SenderEnds
  <2> QED
    BY <1>2, <2>1, <2>2, EntryKept
<1>5. CASE Continue
  <2>1. posts > 0 /\ ~Unstarted /\ FewerToS /\ UNCHANGED <<used, toS>>
    BY <1>5, FewerCases DEF Continue, Unstarted
  <2>2. Straight => NoneOf(toS, "ACCEPT") /\ used.accept # 0
                    /\ (out # NoOut => Streams(out, sent))
    BY <2>1 DEF InOrder
  <2>3. ASSUME Straight, out' # NoOut PROVE Streams(out', sent')
    <3>1. out # NoOut /\ SendNextChunk(out, toR, posts - 1)
      BY <1>5, <2>3 DEF Continue
    <3>2. out \in Entries
      BY <1>1, <3>1 DEF SenderTypes
    <3> QED
      BY <2>2, <2>3, <3>1, <3>2, SendNextChunkStreams
  <2> QED
    BY <2>1, <2>2, <2>3, EntryStreams DEF NoneOf
<1>6. CASE StartStreaming
  <2>1. toS # <<>> /\ toS' = Tail(toS) /\ Head(toS).type = "ACCEPT" /\ UNCHANGED used
    BY <1>6 DEF StartStreaming, AtS
  <2>2. FewerToS
    BY <2>1, FewerCases
  <2>3. ~NoneOf(toS, "ACCEPT")
    BY <1>1, <2>1 DEF NoneOf
  <2>4. Straight => Unstarted /\ used.accept # 0 /\ NoneOf(toS', "ACCEPT")
    BY <1>1, <2>1, <2>3, TailHas DEF InOrder
  <2> DEFINE o == [out EXCEPT !.state = "Active", !.file = "open", !.pos = 0]
  <2>5. CASE out = NoOut /\ UNCHANGED <<out, posts, sent>>
    BY <1>2, <2>1, <2>2, <2>5, EntryKept
  <2>6. CASE SenderEnds("failed") /\ UNCHANGED <<posts, sent>>
    BY <1>2, <2>1, <2>2, <2>6, EntryKept DEF SenderEnds
  <2>7. CASE out # NoOut /\ SendNextChunk(o, toR, posts)
    <3>1. o \in Entries
      BY <1>1, <2>7, StartedType
    <3>2. ASSUME Straight PROVE Streams(o, sent)
      <4>1. out \in Entries /\ out.bytes = 0 /\ sent = {}
        BY <1>1, <2>4, <2>7, <3>2 DEF SenderTypes, Unstarted
      <4>2. o.file = "open" /\ o.pos = 0 /\ o.bytes = 0
        BY <4>1 DEF Entries
      <4> HIDE DEF o
      <4>3. sent = 0 .. o.bytes - 1 /\ o.bytes <= FileSize
        BY <4>1, <4>2, FileAssumption
      <4> QED
        BY <4>2, <4>3 DEF Streams
    <3> HIDE DEF o
    <3>3. Straight /\ out' # NoOut => Streams(out', sent')
      BY <2>7, <3>1, <3>2, SendNextChunkStreams
    <3> QED
      BY <2>1, <2>2, <2>4, <3>3, EntryStreams
  <2> QED
    BY <1>6, <2>5, <2>6, <2>7 DEF StartStreaming
<1>7. CASE HandleResumeRequest
  <2>1. toS # <<>> /\ Head(toS).type = "RESUME_REQUEST" /\ UNCHANGED used
    BY <1>7 DEF HandleResumeRequest, AtS
  <2>2. ~NoneOf(toS, "RESUME_REQUEST")
    BY <1>1, <2>1 DEF NoneOf
  <2> QED
    BY <2>1, <2>2 DEF InOrder, Straight
<1>8. CASE OnReject \/ SenderOnCancel \/ SenderOnPause
  <2>1. toS # <<>> /\ toS' = Tail(toS) /\ UNCHANGED <<used, posts, sent>>
    BY <1>8 DEF OnReject, SenderOnCancel, SenderCancelled, SenderOnPause, AtS
  <2>2. FewerToS
    BY <2>1, FewerCases
  <2>3. out' \in {NoOut, out, Paused(out)}
    BY <1>8 DEF OnReject, SenderOnCancel, SenderCancelled, SenderEnds, SenderOnPause
  <2> QED
    BY <1>1, <1>2, <2>1, <2>2, <2>3, EntryKept, PausedOutType
<1>9. CASE SenderCancels \/ SenderPauses
  <2>1. FewerToS /\ UNCHANGED <<posts, sent>>
    BY <1>9, FewerCases DEF SenderCancels, SenderCancelled, SenderPauses
  <2>2. StillStraight
    BY <1>1, <1>2, <1>9, SpendType
       DEF SenderCancels, SenderPauses, StillStraight, Straight, BoundTypes
  <2>3. out' \in {NoOut, out, Paused(out)}
    BY <1>9 DEF SenderCancels, SenderCancelled, SenderEnds, SenderPauses
  <2> QED
    BY <1>1, <2>1, <2>2, <2>3, EntryKept, PausedOutType
<1>10. CASE SenderResumes \/ ReceiverResumes
  <2>1. used' = [used EXCEPT !.resume = @ + 1]
    BY <1>1, <1>10, SpendType DEF SenderResumes, ReceiverResumes
  <2> QED
    BY <1>1, <2>1 DEF InOrder, Straight, BoundTypes
<1>11. CASE ReceiverGets \/ UNCHANGED vars
  <2>1. UNCHANGED <<sendVars, toS, used>>
    BY <1>11 DEF ReceiverGets, OnOffer, HandleFileChunk, OnComplete, ReceiverOnPause, OnResumeAck,
                 ReceiverOnCancel, vars
  <2>2. FewerToS
    BY <2>1, FewerCases
  <2> QED
    BY <1>2, <2>1, <2>2, EntryKept DEF sendVars
<1>12. CASE AcceptOffer
  <2>1. /\ used' = [used EXCEPT !.accept = @ + 1] /\ UNCHANGED sendVars
        /\ toS' = Append(toS, Frame("ACCEPT", 0))
    BY <1>1, <1>12, SpendType DEF AcceptOffer
  <2>2. SUFFICES ASSUME Straight' PROVE InOrder'
    BY DEF InOrder
  <2>3. used'.accept = 1 /\ used.accept = 0 /\ Straight
    BY <1>1, <2>1, <2>2 DEF Straight, BoundTypes
  <2>4. Unstarted' /\ NoneOf(toS, "ACCEPT") /\ NoneOf(toS, "RESUME_REQUEST")
    BY <2>1, <2>3 DEF InOrder, Unstarted, sendVars
  <2>5. Frame("ACCEPT", 0) \in Frames /\ Frame("ACCEPT", 0).type = "ACCEPT"
    BY SentFrames
  <2>6. NoneOf(toS', "RESUME_REQUEST") /\ AtMostOneOf(toS', "ACCEPT")
    BY <1>1, <2>1, <2>4, <2>5, AppendHas
  <2> QED
    BY <2>3, <2>4, <2>6 DEF InOrder
<1>13. CASE RejectOffer \/ ReceiverCancels \/ ReceiverPauses
  <2>1. UNCHANGED sendVars /\ StillStraight
    BY <1>1, <1>2, <1>13, SpendType
       DEF RejectOffer, ReceiverCancels, ReceiverPauses, StillStraight, Straight, BoundTypes
  <2>2. PICK t \in {"REJECT", "CANCEL", "PAUSE"} : toS' = Append(toS, Frame(t, 0))
    BY <1>13 DEF RejectOffer, ReceiverCancels, ReceiverPauses
  <2>3. Frame(t, 0) \in Frames /\ Frame(t, 0).type = t
    BY SentFrames
  <2>4. FewerToS
    BY <2>2, <2>3, FewerCases
  <2> QED
    BY <2>1, <2>4, EntryKept DEF sendVars
<1>14. CASE LoseFrames
  <2>1. FewerToS
    BY <1>14, FewerCases DEF LoseFrames
  <2>2. UNCHANGED sendVars /\ StillStraight
    BY <1>1, <1>14, SpendType DEF LoseFrames, StillStraight, Straight, BoundTypes
  <2> QED
    BY <2>1, <2>2, EntryKept DEF sendVars
<1>15. CASE Restart
  <2>1. FewerToS
    BY <1>15, FewerCases DEF Restart
  <2>2. StillStraight
    BY <1>1, <1>15, SpendType DEF Restart, StillStraight, Straight, BoundTypes
  <2>3. /\ UNCHANGED sent /\ posts' \in {posts, 0}
        /\ out' = NoOut \/ (out # NoOut /\ out' = out)
    BY <1>15 DEF Restart, sendVars
  <2> QED
    BY <2>1, <2>2, <2>3, EntryKept
<1> QED
  BY <1>3, <1>4, <1>5, <1>6, <1>7, <1>8, <1>9, <1>10, <1>11, <1>12, <1>13, <1>14, <1>15
     DEF Next, SenderGets, User

LEMMA DeliveryInit == Init => Promise!Init
<1> SUFFICES ASSUME Init PROVE Promise!Init
  OBVIOUS
<1>1. Straight
  BY DEF Init, Straight
<1> QED
  BY <1>1 DEF Init, Promise!Init

\* What a step of the sender's entry may be.
LEMMA Outgoes ==
    ASSUME Types', UNCHANGED <<recvVars, Straight>>, sEnd \notin {"completed", "cancelled"},
           \/ out' # NoOut /\ sent \subseteq sent' /\ UNCHANGED sEnd
           \/ /\ out' = NoOut /\ sent' = sent
              /\ \/ sEnd' = "completed" /\ (Straight => sent = 0 .. FileSize - 1)
                 \/ sEnd' \in {"cancelled", "failed"}
    PROVE  [Promise!Next]_(Promise!dvars)
<1>1. (inc' # NoInc) = (inc # NoInc) /\ UNCHANGED <<rEnd, final, short>> /\ Straight' = Straight
  BY DEF recvVars
<1>2. CASE out' # NoOut /\ sent \subseteq sent' /\ UNCHANGED sEnd
  <2>1. sent' \subseteq 0 .. FileSize - 1
    BY DEF Types, SenderTypes
  <2>2. Promise!Send
    BY <1>2, <2>1 DEF Promise!Send, Promise!Over
  <2> QED
    BY <1>1, <2>2 DEF Promise!Next, Promise!Outgoing, Promise!receiver
<1>3. CASE out' = NoOut /\ sent' = sent /\ sEnd' = "completed"
           /\ (Straight => sent = 0 .. FileSize - 1)
  <2>1. Promise!Complete
    BY <1>3 DEF Promise!Complete, Promise!EndOutgoing, Promise!Over
  <2> QED
    BY <1>1, <2>1 DEF Promise!Next, Promise!Outgoing, Promise!receiver
<1>4. CASE out' = NoOut /\ sent' = sent /\ sEnd' \in {"cancelled", "failed"}
  <2>1. Promise!EndOutgoing("cancelled") \/ Promise!EndOutgoing("failed")
    BY <1>4 DEF Promise!EndOutgoing, Promise!Over
  <2> QED
    BY <1>1, <2>1 DEF Promise!Next, Promise!Outgoing, Promise!receiver
<1> QED
  BY <1>2, <1>3, <1>4

\* A step that only one end notices, and only in that it holds the transfer or not.
LEMMA Stays ==
    ASSUME UNCHANGED <<Straight, sEnd, sent, rEnd, final, short>>,
           out = NoOut => out' = NoOut, inc = NoInc => inc' = NoInc,
           (out' = NoOut => out = NoOut) \/ (inc' = NoInc => inc = NoInc)
    PROVE  [Promise!Next]_(Promise!dvars)
<1>1. CASE (out' = NoOut <=> out = NoOut) /\ (inc' = NoInc <=> inc = NoInc)
  BY <1>1 DEF Promise!dvars, Promise!sender, Promise!receiver
<1>2. CASE out # NoOut /\ out' = NoOut /\ (inc' = NoInc <=> inc = NoInc)
  BY <1>2 DEF Promise!Next, Promise!Outgoing, Promise!ForgetOutgoing, Promise!receiver
<1>3. CASE inc # NoInc /\ inc' = NoInc /\ (out' = NoOut <=> out = NoOut)
  BY <1>3 DEF Promise!Next, Promise!Incoming, Promise!ForgetIncoming, Promise!sender
<1> QED
  BY <1>1, <1>2, <1>3

\* The receiver's listeners are told of the end.
LEMMA ReceiverTold ==
    ASSUME UNCHANGED <<Straight, sendVars>>, inc # NoInc,
           \/ ReceiverEnds("received") /\ Close(Original)
           \/ (ReceiverEnds("cancelled") \/ ReceiverEnds("failed")) /\ UNCHANGED <<final, short>>
    PROVE  [Promise!Next]_(Promise!dvars)
<1>1. CASE ReceiverEnds("received") /\ Close(Original)
  <2>1. Promise!Receive
    BY <1>1 DEF ReceiverEnds, Close, Promise!EndIncoming, Promise!Receive
  <2> QED
    BY <2>1 DEF sendVars, Promise!Next, Promise!Incoming, Promise!sender
<1>2. CASE (ReceiverEnds("cancelled") \/ ReceiverEnds("failed")) /\ UNCHANGED <<final, short>>
  BY <1>2 DEF ReceiverEnds, sendVars, Promise!Next, Promise!Incoming, Promise!EndIncoming,
              Promise!sender
<1> QED
  BY <1>1, <1>2

\* Every step of FileTransfer is one of Delivery, or changes nothing Delivery speaks of.
LEMMA DeliveryStep ==
    ASSUME DeliveryInv, Types', [Next]_vars
    PROVE  [Promise!Next]_(Promise!dvars)
<1>1. /\ Types /\ Fresh /\ Ended /\ OfferedOnce /\ InOrder
      /\ toR \in Seq(Frames) /\ toS \in Seq(Frames) /\ BoundTypes /\ SenderTypes
      /\ posts \in Nat
  BY DEF DeliveryInv, Types, WireTypes, SenderTypes
<1>2. UNCHANGED used => UNCHANGED Straight
  BY DEF Straight
<1>3. out # NoOut \/ saved => sEnd \notin {"completed", "cancelled"}
  BY <1>1 DEF Ended
<1>4. CASE SendFile
  <2>1. out' # NoOut /\ sEnd = "none" /\ UNCHANGED <<recvVars, used, sEnd, sent>>
    BY <1>1, <1>4 DEF SendFile, NoOut, Fresh
  <2> QED
    BY <1>2, <2>1, Outgoes
<1>5. CASE HashDone
  <2>1. UNCHANGED <<recvVars, used, sent>>
    BY <1>5 DEF HashDone
  <2>2. CASE SenderEnds("failed") /\ out # NoOut
    BY <1>2, <1>3, <2>1, <2>2, Outgoes DEF SenderEnds
  <2>3. CASE UNCHANGED <<out, sEnd>>
    BY <1>2, <2>1, <2>3, Stays DEF recvVars
  <2> QED
    BY <1>5, <2>2, <2>3 DEF HashDone
<1>6. ASSUME NEW o \in Entries, NEW w \in Seq(Frames), NEW p \in Nat, SendNextChunk(o, w, p),
             UNCHANGED <<recvVars, used>>, out # NoOut \/ saved,
             Straight /\ CompleteSent(o) => sent = 0 .. FileSize - 1
      PROVE  [Promise!Next]_(Promise!dvars)
  <2>1. \/ out' \in Entries /\ sent \subseteq sent' /\ UNCHANGED sEnd
        \/ out' = NoOut /\ sEnd' = "completed" /\ sent' = sent /\ CompleteSent(o)
        \/ out' = NoOut /\ sEnd' = "failed" /\ UNCHANGED sent
    BY <1>6, SendNextChunkKinds
  <2> QED
    BY <1>2, <1>3, <1>6, <2>1, EntriesExist, Outgoes
<1>7. CASE Continue
  <2>1. posts > 0 /\ ~Unstarted /\ UNCHANGED <<recvVars, used>>
    BY <1>7 DEF Continue, Unstarted
  <2>2. CASE out = NoOut /\ UNCHANGED <<out, sEnd, sent>>
    BY <1>2, <2>1, <2>2, Stays DEF recvVars
  <2>3. CASE out # NoOut /\ SendNextChunk(out, toR, posts - 1)
    <3>1. out \in Entries /\ posts - 1 \in Nat
      BY <1>1, <2>1, <2>3 DEF SenderTypes
    <3>2. Straight => Streams(out, sent)
      BY <1>1, <2>1, <2>3 DEF InOrder
    <3>3. Straight /\ CompleteSent(out) => sent = 0 .. FileSize - 1
      BY <2>3, <3>1, <3>2, SendNextChunkStreams
    <3> QED
      BY <1>1, <1>6, <2>1, <2>3, <3>1, <3>3
  <2> QED
    BY <1>7, <2>2, <2>3 DEF Continue
<1>8. CASE StartStreaming
  <2>1. toS # <<>> /\ Head(toS).type = "ACCEPT" /\ UNCHANGED <<recvVars, used>>
    BY <1>8 DEF StartStreaming, AtS
  <2>2. Straight => Unstarted
    BY <1>1, <2>1 DEF InOrder, NoneOf
  <2> DEFINE o == [out EXCEPT !.state = "Active", !.file = "open", !.pos = 0]
  <2>3. CASE out = NoOut /\ UNCHANGED <<out, sEnd, sent>>
    BY <1>2, <2>1, <2>3, Stays DEF recvVars
  <2>4. CASE out # NoOut /\ SenderEnds("failed") /\ UNCHANGED sent
    BY <1>2, <1>3, <2>1, <2>4, Outgoes DEF SenderEnds
  <2>5. CASE out # NoOut /\ SendNextChunk(o, toR, posts)
    <3>1. o \in Entries
      BY <1>1, <2>5, StartedType
    <3>2. ASSUME Straight, CompleteSent(o) PROVE sent = 0 .. FileSize - 1
      <4>1. out \in Entries /\ out.bytes = 0 /\ sent = {}
        BY <1>1, <2>2, <2>5, <3>2 DEF SenderTypes, Unstarted
      <4>2. o.file = "open" /\ o.bytes = 0
        BY <4>1 DEF Entries
      <4> HIDE DEF o
      <4> QED
        BY <3>2, <4>1, <4>2, FileAssumption DEF CompleteSent
    <3> HIDE DEF o
    <3> QED
      BY <1>1, <1>6, <2>1, <2>5, <3>1, <3>2
  <2> QED
    BY <1>8, <2>3, <2>4, <2>5 DEF StartStreaming
<1>9. CASE HandleResumeRequest
  <2>1. toS # <<>> /\ Head(toS).type = "RESUME_REQUEST" /\ UNCHANGED <<recvVars, used>>
    BY <1>9 DEF HandleResumeRequest, AtS
  <2>2. ~Straight
    BY <1>1, <2>1 DEF InOrder, NoneOf
  <2> DEFINE last == Head(toS).seq
             w == Append(toR, Frame("RESUME_ACK", last + 1))
  <2>3. CASE out = NoOut /\ UNCHANGED <<out, sEnd, sent>>
    BY <1>2, <2>1, <2>3, Stays DEF recvVars
  <2>4. CASE (out # NoOut \/ saved) /\ SendNextChunk(Resumed(last), w, posts)
    <3>1. last \in Nat
      BY <1>1, <1>9, ArrivalType DEF HandleResumeRequest, Types, Frames
    <3>2. Resumed(last) \in Entries /\ w \in Seq(Frames)
      BY <1>1, <3>1, ResumedType, FrameType, AppendType
    <3> HIDE DEF last, w
    <3> QED
      BY <1>1, <1>6, <2>1, <2>2, <2>4, <3>2
  <2> QED
    BY <1>9, <2>3, <2>4 DEF HandleResumeRequest, LoadTransferState
<1>10. CASE OnReject \/ SenderOnPause \/ SenderPauses
  <2>1. UNCHANGED <<recvVars, sEnd, sent>>
    BY <1>10 DEF OnReject, SenderOnPause, SenderPauses
  <2>2. UNCHANGED Straight
    BY <1>1, <1>2, <1>10, SpendType
       DEF OnReject, SenderOnPause, SenderPauses, Straight, BoundTypes
  <2>3. out' = NoOut \/ (out # NoOut /\ out' # NoOut)
    BY <1>1, <1>10, PausedOutType DEF OnReject, SenderOnPause, SenderPauses
  <2> QED
    BY <2>1, <2>2, <2>3, Stays DEF recvVars
<1>11. CASE SenderOnCancel \/ SenderCancels
  <2>1. UNCHANGED <<recvVars, used, sent>>
    BY <1>11 DEF SenderOnCancel, SenderCancels, SenderCancelled
  <2>2. CASE out # NoOut /\ SenderEnds("cancelled")
    BY <1>2, <1>3, <2>1, <2>2, Outgoes DEF SenderEnds
  <2>3. CASE UNCHANGED <<out, sEnd>>
    BY <1>2, <2>1, <2>3, Stays DEF recvVars
  <2> QED
    BY <1>11, <2>2, <2>3 DEF SenderOnCancel, SenderCancels, SenderCancelled
<1>12. CASE SenderResumes \/ AcceptOffer \/ ReceiverResumes
  <2>1. UNCHANGED <<sendVars, recvVars>>
    BY <1>12 DEF SenderResumes, AcceptOffer, ReceiverResumes
  <2>2. Straight' => Straight
    BY <1>1, <1>12, SpendType
       DEF SenderResumes, AcceptOffer, ReceiverResumes, Straight, BoundTypes
  <2>3. CASE UNCHANGED Straight
    BY <2>1, <2>3, Stays DEF sendVars, recvVars
  <2>4. CASE Straight /\ ~Straight'
    BY <2>1, <2>4
       DEF sendVars, recvVars, Promise!Next, Promise!Deviate, Promise!sender, Promise!receiver
  <2> QED
    BY <2>2, <2>3, <2>4 DEF Straight
<1>13. CASE OnOffer
  <2>1. UNCHANGED <<sendVars, used, rEnd, final, short>>
    BY <1>13 DEF OnOffer
  <2>2. inc = NoInc /\ rEnd = "none"
    BY <1>1, <1>13 DEF OnOffer, AtR, OfferedOnce, NoneOf
  <2>3. CASE inc' = [NoInc EXCEPT !.state = "Pending"]
    <3>1. inc' # NoInc
      BY <2>3, NewArrivalType, ArrivalsExist
    <3> QED
      BY <1>2, <2>1, <2>2, <3>1
         DEF sendVars, Promise!Next, Promise!Incoming, Promise!Offer, Promise!sender
  <2>4. CASE UNCHANGED inc
    BY <1>2, <2>1, <2>4, Stays DEF sendVars
  <2> QED
    BY <1>13, <2>3, <2>4 DEF OnOffer
<1>14. CASE HandleFileChunk
  <2> DEFINE f == Head(toR)
             contents == inc.written \o [i \in 1 .. f.len |-> f.at + i - 1]
  <2>1. UNCHANGED <<sendVars, used>>
    BY <1>14 DEF HandleFileChunk
  <2>2. Wanted(f) => inc # NoInc
    BY DEF Wanted, NoInc
  <2> HIDE DEF f, contents
  <2>3. CASE UNCHANGED recvVars
    BY <1>2, <2>1, <2>3, Stays DEF sendVars, recvVars
  <2>4. CASE Wanted(f) /\ ReceiverEnds("failed") /\ UNCHANGED <<final, short>>
    BY <1>2, <2>1, <2>2, <2>4, ReceiverTold
  <2>5. CASE /\ Wanted(f) /\ contents = Original
             /\ ReceiverEnds("received") /\ Close(contents)
    BY <1>2, <2>1, <2>2, <2>5, ReceiverTold
  <2>6. CASE /\ Wanted(f) /\ Write /\ UNCHANGED <<rEnd, final>>
             /\ inc' = [state |-> IF inc.opened THEN inc.state ELSE "Active", opened |-> TRUE,
                        written |-> contents, chunks |-> inc.chunks + 1]
    <3>1. inc' # NoInc
      BY <2>6 DEF NoInc
    <3>2. CASE UNCHANGED short
      BY <1>2, <2>1, <2>2, <2>6, <3>1, <3>2, Stays DEF sendVars
    <3>3. CASE short' = TRUE
      <4>1. Promise!FallShort
        BY <2>2, <2>6, <3>1, <3>3 DEF Promise!FallShort
      <4> QED
        BY <1>2, <2>1, <4>1
           DEF sendVars, Promise!Next, Promise!Incoming, Promise!sender
    <3> QED
      BY <2>6, <3>2, <3>3 DEF Write
  <2> QED
    BY <1>14, <2>3, <2>4, <2>5, <2>6 DEF HandleFileChunk, FinishReceiving, f, contents
<1>15. CASE OnComplete \/ ReceiverOnPause \/ OnResumeAck
  <2>1. UNCHANGED <<sendVars, used, rEnd, final, short>>
    BY <1>15 DEF OnComplete, ReceiverOnPause, OnResumeAck, recvVars
  <2>2. inc' = NoInc \/ (inc # NoInc /\ inc' # NoInc)
    <3>1. CASE OnComplete \/ ReceiverOnPause
      BY <3>1 DEF OnComplete, ReceiverOnPause, recvVars
    <3>2. CASE OnResumeAck
      <4>1. inc # NoInc => inc \in Arrivals
        BY <1>1 DEF Types, ReceiverTypes
      <4>2. inc # NoInc => inc'.state = "Active"
        BY <3>2, <4>1 DEF OnResumeAck, Arrivals
      <4> QED
        BY <3>2, <4>2 DEF OnResumeAck, NoInc
    <3> QED
      BY <1>15, <3>1, <3>2
  <2> QED
    BY <1>2, <2>1, <2>2, Stays DEF sendVars
<1>16. CASE ReceiverOnCancel \/ ReceiverCancels
  <2>1. UNCHANGED <<sendVars, used, final, short>>
    BY <1>16 DEF ReceiverOnCancel, ReceiverCancels
  <2>2. CASE inc # NoInc /\ ReceiverEnds("cancelled")
    BY <1>2, <2>1, <2>2, ReceiverTold
  <2>3. CASE UNCHANGED <<inc, rEnd>>
    BY <1>2, <2>1, <2>3, Stays DEF sendVars
  <2> QED
    BY <1>16, <2>2, <2>3 DEF ReceiverOnCancel, ReceiverCancels, ReceiverCancelled
<1>17. CASE RejectOffer \/ ReceiverPauses
  <2>1. UNCHANGED <<sendVars, rEnd, final, short>>
    BY <1>17 DEF RejectOffer, ReceiverPauses
  <2>2. UNCHANGED Straight
    BY <1>1, <1>17, SpendType DEF RejectOffer, ReceiverPauses, Straight, BoundTypes
  <2>3. inc' = NoInc \/ (inc # NoInc /\ inc' # NoInc)
    BY <1>1, <1>17, PausedIncType DEF RejectOffer, ReceiverPauses, Types
  <2> QED
    BY <2>1, <2>2, <2>3, Stays DEF sendVars
<1>18. CASE LoseFrames \/ Restart \/ UNCHANGED vars
  <2>1. UNCHANGED Straight
    BY <1>1, <1>2, <1>18, SpendType DEF LoseFrames, Restart, vars, Straight, BoundTypes
  <2>2. /\ UNCHANGED <<sEnd, sent, rEnd, final, short>>
        /\ \/ UNCHANGED inc /\ (UNCHANGED out \/ out' = NoOut)
           \/ UNCHANGED out /\ inc' = NoInc
    BY <1>18 DEF LoseFrames, Restart, vars, sendVars, recvVars
  <2> QED
    BY <2>1, <2>2, Stays
<1> QED
  BY <1>4, <1>5, <1>7, <1>8, <1>9, <1>10, <1>11, <1>12, <1>13, <1>14, <1>15, <1>16, <1>17, <1>18
     DEF Next, SenderGets, ReceiverGets, User

\* Whatever the two users, the link and the two processes do, the listeners of the two ends
\* are told what Delivery promises: an end that was reported stays, a file reported as
\* received is the file that was offered, or the beginning of it if a write or the close
\* fell short, and a transfer accepted once and never resumed is completed only when all of
\* the file has gone out.
THEOREM KeepsDelivery == Spec => DeliveryKept
<1>1. DeliveryInv /\ [Next]_vars => DeliveryInv'
  BY TypeStep, EndsStep, OffersStep, InOrderStep DEF DeliveryInv
<1>2. DeliveryInv /\ [Next]_vars => [Promise!Next]_(Promise!dvars)
  BY <1>1, DeliveryStep DEF DeliveryInv
<1> QED
  BY DeliveryInvInit, DeliveryInit, <1>1, <1>2, PTL DEF Spec, DeliveryKept, Promise!Spec
=============================================================================
