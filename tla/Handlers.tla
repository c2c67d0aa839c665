------------------------------- MODULE Handlers -------------------------------
(***************************************************************************)
(* What the server takes: the test doubles' handlers, which enforce the wire     *)
(* protocol as the real server does.  A handler says, for every arm of its       *)
(* request, which arms must have come before and which must not have, how its    *)
(* chunks are folded into files, and what must be there at the end.             *)
(***************************************************************************)
EXTENDS Naturals, Sequences

\* An arm: its frames need those of `after', and must precede those of `before'.
Arm(after, before, fold) == [after |-> after, before |-> before, fold |-> fold]
File == Arm({}, {}, "single")

\* `needs': arms without which the request is refused; `full': arms whose files must
\* hold data; `either': arms that may only be missing when the params name the
\* alternative; `bytes': an arm counts as sent only once it holds data, and the
\* alternative rules it out; `ids': files are matched with the ids of the head;
\* `last': the last chunk must say so.
Handler(arms) ==
  [arms |-> arms, head |-> TRUE, needs |-> {}, full |-> {}, either |-> {},
   bytes |-> FALSE, ids |-> FALSE, last |-> FALSE]

TransformImage == Handler([file |-> File, watermark_file |-> File])
TransformVideo == Handler([file |-> File])
GeneratePreview == Handler([file |-> File])
ProbeMedia == [Handler([file |-> File]) EXCEPT !.head = FALSE]
RemoveBackground == Handler([file |-> File])
RestoreFace == Handler([file |-> File])
ColorizeFace == Handler([file |-> File])
InpaintFace == Handler([file |-> File, mask_file |-> File])
UpscaleImage == Handler([file |-> File])

GenerateImage == Handler([reference_image |-> Arm({}, {}, "byName")])
EditImage ==
  [Handler([input_image |-> Arm({}, {"mask_image"}, "single"),
            mask_image |-> Arm({"input_image"}, {}, "single")])
     EXCEPT !.needs = {"input_image"}]
OutpaintImage == [Handler([input_image |-> File]) EXCEPT !.needs = {"input_image"}]
RefineFaces ==
  [Handler([input_image |-> Arm({}, {"reference_image"}, "single"),
            reference_image |-> Arm({"input_image"}, {}, "byName")])
     EXCEPT !.needs = {"input_image"}]

Render ==
  [Handler([asset |-> Arm({}, {}, "byId")]) EXCEPT !.ids = TRUE, !.full = {"asset"}]
GenerateVideo ==
  Handler([first_frame |-> Arm({}, {"last_frame"}, "single"),
           last_frame |-> Arm({"first_frame"}, {}, "single")])
GenerateTalkingVideo ==
  [Handler([portrait |-> Arm({}, {"audio"}, "single"), audio |-> File])
     EXCEPT !.needs = {"portrait"}, !.full = {"portrait"}, !.either = {"audio"}, !.bytes = TRUE]

TranscribeScore == [Handler([chunk |-> File]) EXCEPT !.needs = {"chunk"}]
SaveVoice ==
  [Handler([sample |-> File]) EXCEPT !.either = {"sample"}, !.full = {"sample"}]
NoUpload == Handler([a \in {} |-> File])

ClusterHdbscan ==
  [Handler([points |-> File, ids |-> File]) EXCEPT !.needs = {"points"}]
ProjectUmap ==
  [Handler([points |-> File, ids |-> File, supervised_labels |-> File])
     EXCEPT !.needs = {"points"}]

Transcribe == Handler([chunk |-> File])
TranscribeRecording == Handler([chunk |-> File])
ExtractContent == [Handler([artifact |-> File]) EXCEPT !.last = TRUE]
CompleteUpload == Handler([attachment |-> Arm({}, {}, "keyed")])

\* The handler behind each client method.
HandlerTable == [
  TransformImage |-> TransformImage, TransformVideo |-> TransformVideo,
  GeneratePreview |-> GeneratePreview, ProbeMedia |-> ProbeMedia,
  RemoveBackground |-> RemoveBackground, RestoreFace |-> RestoreFace,
  ColorizeFace |-> ColorizeFace, InpaintFace |-> InpaintFace,
  UpscaleImage |-> UpscaleImage, Generate |-> GenerateImage, Edit |-> EditImage,
  Outpaint |-> OutpaintImage, RefineFaces |-> RefineFaces, Render |-> Render,
  GenerateVideo |-> GenerateVideo, GenerateTalking |-> GenerateTalkingVideo,
  GenerateTalkingSpeech |-> GenerateTalkingVideo, Plan |-> NoUpload,
  ComposeSong |-> NoUpload, TranscribeScore |-> TranscribeScore, Design |-> NoUpload,
  Save |-> SaveVoice, Speak |-> NoUpload, ClusterHdbscan |-> ClusterHdbscan,
  ProjectUmap |-> ProjectUmap, Transcribe |-> Transcribe,
  TranscribeRecording |-> TranscribeRecording, ExtractContent |-> ExtractContent,
  CompleteWithAttachments |-> CompleteUpload]
=============================================================================
