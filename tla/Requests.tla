------------------------------- MODULE Requests -------------------------------
(***************************************************************************)
(* What each client method that moves files puts on the wire, and when it      *)
(* takes the answer for whole.                                               *)
(*                                                                         *)
(* A request is a head frame (params, config, header, init), then the files     *)
(* of each part in order, every file cut into chunks.  Data is abstracted to    *)
(* which chunk of which of the caller's files a frame carries; a name on the    *)
(* wire is the caller's, with the position the client may put in front of it.   *)
(***************************************************************************)
EXTENDS Naturals, Sequences, SequencesExt, Framing

CONSTANTS
  Names,     \* names (or ids) the caller gives its files
  NoName,    \* the empty one
  MaxChunks, \* chunks in a file, at most
  MaxFiles   \* files the caller passes in a part that takes many

ASSUME RequestAssumption ==
  NoName \in Names /\ MaxChunks \in Nat \ {0} /\ MaxFiles \in Nat \ {0}

------------------------------------------------------------------------------
(* The parts of a request. *)

Part(arm, least, most) ==
  [arm |-> arm, least |-> least, most |-> most, fewest |-> 0, placed |-> FALSE]

One(arm) == Part(arm, 1, 1)
Optional(arm) == Part(arm, 0, 1)
Many(arm) == Part(arm, 0, MaxFiles)

\* Mutant: a reference goes out under its own name.
ReferencesUnderOwnName(arm) == Many(arm)

\* Each reference goes out under a name made unique by its position.
References(arm) == [Many(arm) EXCEPT !.placed = TRUE]

\* Numbers sent in slices: an empty list sends no frame.
Numbers(arm) == [Optional(arm) EXCEPT !.fewest = 1]

Request(parts, answer) ==
  [parts |-> parts, answer |-> answer, head |-> TRUE, alternative |-> {FALSE}, last |-> FALSE]

------------------------------------------------------------------------------
(* The client methods. *)

TransformImage == Request(<<One("file"), Optional("watermark_file")>>, "file")
TransformVideo == Request(<<One("file")>>, "file")
GeneratePreview == Request(<<One("file")>>, "file")
ProbeMedia == [Request(<<One("file")>>, "result") EXCEPT !.head = FALSE]
RemoveBackground == Request(<<One("file")>>, "file")
RestoreFace == Request(<<One("file")>>, "file")
ColorizeFace == Request(<<One("file")>>, "file")
InpaintFace == Request(<<One("file"), One("mask_file")>>, "file")
UpscaleImage == Request(<<One("file")>>, "file")

Generate == Request(<<References("reference_image")>>, "images")
Edit == Request(<<One("input_image"), Optional("mask_image")>>, "images")
Outpaint == Request(<<One("input_image")>>, "images")
RefineFaces == Request(<<One("input_image"), References("reference_image")>>, "images")

Render == Request(<<Many("asset")>>, "one")
GenerateVideo == Request(<<Optional("first_frame"), Optional("last_frame")>>, "one")
GenerateTalking == Request(<<One("portrait"), One("audio")>>, "one")
GenerateTalkingSpeech ==
  [Request(<<One("portrait")>>, "one") EXCEPT !.alternative = {TRUE}]

Plan == Request(<<>>, "result")
ComposeSong == Request(<<>>, "listed")
TranscribeScore == Request(<<One("chunk")>>, "result")
Design == Request(<<>>, "listed")
Save == [Request(<<Optional("sample")>>, "result") EXCEPT !.alternative = BOOLEAN]
Speak == Request(<<>>, "one")

ClusterHdbscan == Request(<<Numbers("points"), Numbers("ids")>>, "rows")
ProjectUmap ==
  Request(<<Numbers("points"), Numbers("ids"), Numbers("supervised_labels")>>, "rows")

Transcribe == Request(<<One("chunk")>>, "result")
TranscribeRecording == Request(<<One("chunk")>>, "counted")
ExtractContent == [Request(<<One("artifact")>>, "ended") EXCEPT !.last = TRUE]
CompleteWithAttachments == Request(<<Many("attachment")>>, "result")

MethodTable == [
  TransformImage |-> TransformImage, TransformVideo |-> TransformVideo,
  GeneratePreview |-> GeneratePreview, ProbeMedia |-> ProbeMedia,
  RemoveBackground |-> RemoveBackground, RestoreFace |-> RestoreFace,
  ColorizeFace |-> ColorizeFace, InpaintFace |-> InpaintFace,
  UpscaleImage |-> UpscaleImage, Generate |-> Generate, Edit |-> Edit,
  Outpaint |-> Outpaint, RefineFaces |-> RefineFaces, Render |-> Render,
  GenerateVideo |-> GenerateVideo, GenerateTalking |-> GenerateTalking,
  GenerateTalkingSpeech |-> GenerateTalkingSpeech, Plan |-> Plan,
  ComposeSong |-> ComposeSong, TranscribeScore |-> TranscribeScore, Design |-> Design,
  Save |-> Save, Speak |-> Speak, ClusterHdbscan |-> ClusterHdbscan,
  ProjectUmap |-> ProjectUmap, Transcribe |-> Transcribe,
  TranscribeRecording |-> TranscribeRecording, ExtractContent |-> ExtractContent,
  CompleteWithAttachments |-> CompleteWithAttachments]

Methods == DOMAIN MethodTable

------------------------------------------------------------------------------
(* What a caller may pass: the files of each part, whether the params name an    *)
(* alternative to a file (a handle, a speech), and the ids the head refers to.   *)

PartArms(m) == {MethodTable[m].parts[p].arm : p \in DOMAIN MethodTable[m].parts}
PartOf(m, arm) ==
  CHOOSE part \in {MethodTable[m].parts[p] : p \in DOMAIN MethodTable[m].parts} :
    part.arm = arm

\* Only files whose name matters get different ones.
FileNames(part) == IF part.most > 1 THEN Names ELSE {NoName}
FilesFor(part) ==
  {files \in BoundedSeq([name : FileNames(part), chunks : part.fewest .. MaxChunks], part.most) :
     Len(files) >= part.least}

Asks(m) ==
  {[files |-> files, alternative |-> alternative, ids |-> ids] :
     files \in {fs \in [PartArms(m) -> UNION {FilesFor(PartOf(m, a)) : a \in PartArms(m)}] :
                  \A a \in PartArms(m) : fs[a] \in FilesFor(PartOf(m, a))},
     alternative \in MethodTable[m].alternative,
     ids \in IF m \in {"Render", "CompleteWithAttachments"} THEN SUBSET Names ELSE {{}}}

------------------------------------------------------------------------------
(* What is refused before anything is sent. *)

GivenIds(files) == {files[i].name : i \in DOMAIN files}

\* montage: exactly the ids the timeline names, each once, none empty.
CheckAssets(ask) ==
  LET given == GivenIds(ask.files.asset) IN
  /\ NoName \notin ask.ids /\ NoName \notin given
  /\ \A i, j \in DOMAIN ask.files.asset :
       i # j => ask.files.asset[i].name # ask.files.asset[j].name
  /\ given = ask.ids

\* completion: the same, but an id passed twice is not noticed.
CheckAttachments(ask) ==
  LET given == GivenIds(ask.files.attachment) IN
  NoName \notin given /\ given = ask.ids

LastRequiresFirst(ask) ==
  ask.files.last_frame # <<>> => ask.files.first_frame # <<>>

HandleOrSample(ask) == ask.alternative \/ ask.files.sample # <<>>

\* The ids and the labels, if any, are one for each row.
MatrixFits(ask) ==
  \A a \in DOMAIN ask.files \ {"points"} :
    ask.files[a] # <<>> => ask.files.points # <<>>

Passes(m, ask) ==
  /\ m = "Render" => CheckAssets(ask)
  /\ m = "CompleteWithAttachments" => CheckAttachments(ask)
  /\ m = "GenerateVideo" => LastRequiresFirst(ask)
  /\ m = "Save" => HandleOrSample(ask)
  /\ m \in {"ClusterHdbscan", "ProjectUmap"} => MatrixFits(ask)

------------------------------------------------------------------------------
(* The frames: the head if there is one, then the files of each part, in order. *)

RequestShape(m, ask) ==
  LET parts == MethodTable[m].parts
      files(s) == ask.files[parts[s - 1].arm]
  IN [s \in 1 .. Len(parts) + 1 |->
        IF s = 1 THEN IF MethodTable[m].head THEN <<1>> ELSE <<>>
        ELSE [i \in DOMAIN files(s) |-> FramesIn(files(s)[i].chunks)]]

HeadFrame == [arm |-> "head", name |-> <<0, NoName>>, data |-> <<>>, last |-> FALSE]

\* extractFrames keeps a chunk back until it knows whether another follows.
SaysLast(m, ask, at) ==
  LET shape == RequestShape(m, ask) IN MethodTable[m].last /\ AtEnd(shape, After(shape, at))

\* One chunk of a file; an empty file has an empty one.
ChunkFrame(m, ask, at) ==
  LET part == MethodTable[m].parts[at.section - 1]
      file == ask.files[part.arm][at.item]
  IN [arm |-> part.arm,
      name |-> <<IF part.placed THEN at.item ELSE 0, file.name>>,
      data |-> IF file.chunks = 0 THEN <<>> ELSE << <<at.item, at.chunk>> >>,
      last |-> SaysLast(m, ask, at)]

FrameAt(m, ask, at) == IF at.section = 1 THEN HeadFrame ELSE ChunkFrame(m, ask, at)
=============================================================================
