----------------------------- MODULE Attachments -----------------------------
(***************************************************************************)
(* The images of a conversation: those a message brings along, kept in the *)
(* store and as files of the workspace (runtime/images.ts), and those the  *)
(* image tool draws during a turn (runtime/tools/index.ts), over deaths of *)
(* the process after which the engine repeats a turn's calls.              *)
(*                                                                         *)
(* Messages are numbered in the order of their rows, each with one image.  *)
(* A drawn image is named <<operation, call>>, which stands for its hash.  *)
(***************************************************************************)
EXTENDS Integers, FiniteSets

CONSTANTS
  ImageCalls,   \* ids of the image calls of a turn
  MaxMessages,  \* bound: messages
  MaxDeaths,    \* bound: deaths of the process
  MaxRemovals   \* bound: files removed from the workspace

ASSUME AttachmentsAssumption ==
  /\ IsFiniteSet(ImageCalls)
  /\ MaxMessages \in Nat /\ MaxDeaths \in Nat /\ MaxRemovals \in Nat

VARIABLES
  \* persistent: session.sqlite, the engine's journal and the workspace
  rows,        \* messages admitted, with their input_images
  finished,    \* rows that have their outcome
  images,      \* the images table: name -> operation_id
  prompted,    \* operations the engine has accepted
  ended,       \* operations the engine has ended
  given,       \* images the model was told of
  files,       \* the attachments directory: "absent", "torn" or "whole"
  \* the process
  stage,       \* "down", "starting" or "serving"
  row,         \* the row startup looks at
  submitting,  \* the message being submitted, 0 for none
  pen,         \* the file being written, 0 for none
  running,     \* currentOperationId, 0 while it is ''
  calls,       \* image calls: name -> where the handler is
  \* observers and bounds
  paid,        \* requests made for each image
  removed,     \* files removed since the process started
  deaths, removals

storeVars == <<rows, finished, images>>
engineVars == <<prompted, ended, given>>
progressVars == <<stage, row, submitting, pen>>
toolVars == <<running, calls, paid>>
boundVars == <<deaths, removals>>
attachedVars == <<storeVars, engineVars, files, progressVars, toolVars, removed, boundVars>>

Operations == 1..MaxMessages
Drawn == Operations \X ImageCalls
Attached(o) == <<o, "attachment">>

AttachmentsInit ==
  /\ rows = {} /\ finished = {} /\ images = [i \in {} |-> 0]
  /\ prompted = {} /\ ended = {} /\ given = {}
  /\ files = [o \in Operations |-> "absent"]
  /\ stage = "serving" /\ row = 0 /\ submitting = 0 /\ pen = 0
  /\ running = 0 /\ calls = [i \in Drawn |-> "idle"] /\ paid = [i \in Drawn |-> 0]
  /\ removed = {} /\ deaths = 0 /\ removals = 0

-----------------------------------------------------------------------------
(* materializeImages, for a message submitted or a row at startup.          *)
Needed(o) == o \in {submitting} \union (IF stage = "starting" THEN {row} ELSE {})

\* workspace.writeFile: the file is there before its contents are.
StartWrite(o) ==
  /\ Needed(o) /\ pen = 0 /\ files[o] = "absent"
  /\ pen' = o /\ files' = [files EXCEPT ![o] = "torn"]
  /\ UNCHANGED <<storeVars, engineVars, stage, row, submitting, toolVars, removed, boundVars>>

EndWrite ==
  /\ pen # 0
  /\ pen' = 0 /\ files' = [files EXCEPT ![pen] = IF @ = "torn" THEN "whole" ELSE @]
  /\ UNCHANGED <<storeVars, engineVars, stage, row, submitting, toolVars, removed, boundVars>>

\* The file cannot be read or written: the submission, or the start, fails.
FileFault(o) ==
  /\ Needed(o) /\ pen \in {0, o}
  /\ pen' = 0 /\ submitting' = 0
  /\ stage' = IF stage = "starting" THEN "down" ELSE stage
  /\ UNCHANGED <<storeVars, engineVars, files, row, toolVars, removed, boundVars>>

\* Mistaken: settled rows are passed before their files are looked at.
MaterialisedIfOpen(o) == pen = 0 /\ (o \in finished \/ files[o] # "absent")

\* A file that exists, whatever is in it, is kept.
Materialised(o) == pen = 0 /\ files[o] # "absent"

\* The model's own tools, or the user, remove a file.
Remove(o) ==
  /\ removals < MaxRemovals /\ files[o] # "absent"
  /\ files' = [files EXCEPT ![o] = "absent"]
  /\ removed' = removed \union {o} /\ removals' = removals + 1
  /\ UNCHANGED <<storeVars, engineVars, progressVars, toolVars, deaths>>

-----------------------------------------------------------------------------
(* Messages.                                                                *)
\* submit up to admit: a new row with its image, or the row of a retry.
Submit(o) ==
  /\ stage = "serving" /\ submitting = 0
  /\ \A p \in Operations : p < o => p \in rows
  /\ submitting' = o /\ rows' = rows \union {o}
  /\ UNCHANGED <<finished, images, engineVars, files, stage, row, pen, toolVars, removed, boundVars>>

\* The rest of submit: only a message nobody owns is prompted.
SubmitEnds(o) ==
  /\ submitting = o /\ o # 0 /\ Materialised(o)
  /\ submitting' = 0
  /\ prompted' = prompted \union {o} /\ given' = given \union {Attached(o)}
  /\ UNCHANGED <<storeVars, ended, files, stage, row, pen, toolVars, removed, boundVars>>

Start ==
  /\ stage = "down"
  /\ stage' = "starting" /\ row' = 1 /\ removed' = {}
  /\ UNCHANGED <<storeVars, engineVars, files, submitting, pen, toolVars, boundVars>>

\* A row at startup: settled, resumed under its owner, or prompted at last.
StartRow ==
  /\ stage = "starting" /\ row \in rows /\ Materialised(row)
  /\ IF row \in finished THEN UNCHANGED engineVars
     ELSE /\ prompted' = prompted \union {row} /\ given' = given \union {Attached(row)}
          /\ UNCHANGED ended
  /\ row' = row + 1
  /\ UNCHANGED <<storeVars, files, stage, submitting, pen, toolVars, removed, boundVars>>

Serve ==
  /\ stage = "starting" /\ row \notin rows
  /\ stage' = "serving" /\ row' = 0
  /\ UNCHANGED <<storeVars, engineVars, files, submitting, pen, toolVars, removed, boundVars>>

Owned(o) == stage = "serving" \/ (stage = "starting" /\ o < row)

\* store.finish, by the owner of an operation the engine has ended.
FinishRow(o) ==
  /\ Owned(o) /\ o \in ended \ finished
  /\ finished' = finished \union {o}
  /\ UNCHANGED <<rows, images, engineVars, files, progressVars, toolVars, removed, boundVars>>

-----------------------------------------------------------------------------
(* The engine and the image tool.                                           *)
Active(o) == Owned(o) /\ o \in prompted \ ended /\ \A p \in 1..(o - 1) : p \in ended

\* resolveContext: the model is called for the operation.
Resolve(o) ==
  /\ Active(o) /\ running' = o
  /\ UNCHANGED <<storeVars, engineVars, files, progressVars, calls, paid, removed, boundVars>>

Moving(i, where) == calls' = [calls EXCEPT ![i] = where]

\* Mistaken: the tool draws without looking for an earlier image.
NeverExisting(i) == FALSE

\* The image of this very call, drawn before the process last died.
Existing(i) == i \in DOMAIN images

\* The handler looks the image up and, if there is none, asks the service.
CallImage(c) ==
  /\ running # 0 /\ Active(running)
  /\ LET i == <<running, c>>
     IN /\ calls[i] = "idle"
        /\ IF Existing(i)
           THEN Moving(i, "over") /\ given' = given \union {i} /\ UNCHANGED paid
           ELSE Moving(i, "asked") /\ paid' = [paid EXCEPT ![i] = @ + 1] /\ UNCHANGED given
  /\ UNCHANGED <<storeVars, prompted, ended, files, progressVars, running, removed, boundVars>>

\* Arguments, a source image or an abort stop the handler before it asks.
CallFails(c) ==
  /\ running # 0 /\ Active(running) /\ calls[<<running, c>>] = "idle"
  /\ Moving(<<running, c>>, "over")
  /\ UNCHANGED <<storeVars, engineVars, files, progressVars, running, paid, removed, boundVars>>

\* The service answers, or the request fails, times out or is aborted.
Answered(i, drawn) ==
  /\ calls[i] = "asked"
  /\ Moving(i, IF drawn THEN "drawn" ELSE "over")
  /\ UNCHANGED <<storeVars, engineVars, files, progressVars, running, paid, removed, boundVars>>

\* Mistaken: the image goes to the operation running when it is saved.
OwnerAtSave(i) == running

\* The operation read before the first await.
Owner(i) == i[1]

\* store.saveImage; a second image under one id is refused.
SaveImage(i) ==
  /\ calls[i] = "drawn"
  /\ IF i \in DOMAIN images THEN Moving(i, "over") /\ UNCHANGED images
     ELSE /\ Moving(i, "saved")
          /\ images' = [j \in DOMAIN images \union {i} |-> IF j = i THEN Owner(i) ELSE images[j]]
  /\ UNCHANGED <<rows, finished, engineVars, files, progressVars, running, paid, removed, boundVars>>

\* Mistaken: the handler answers without awaiting the write.
MayAnswerEarly(i) == calls[i] \in {"drawn", "saved"}

MayAnswer(i) == calls[i] = "saved"

AnswerModel(i) ==
  /\ MayAnswer(i)
  /\ Moving(i, "over") /\ given' = given \union {i}
  /\ UNCHANGED <<storeVars, prompted, ended, files, progressVars, running, paid, removed, boundVars>>

\* The turn ends by itself once its calls are over, or is cancelled; a
\* cancellation aborts requests, not what comes after them.
TurnEnds(o, cancelled) ==
  /\ Active(o)
  /\ cancelled \/ \A c \in ImageCalls : calls[<<o, c>>] \in {"idle", "over"}
  /\ ended' = ended \union {o}
  /\ calls' = [i \in Drawn |-> IF i[1] = o /\ calls[i] = "asked" THEN "over" ELSE calls[i]]
  /\ UNCHANGED <<storeVars, prompted, given, files, progressVars, running, paid, removed, boundVars>>

Die ==
  /\ stage # "down" /\ deaths < MaxDeaths
  /\ deaths' = deaths + 1 /\ stage' = "down"
  /\ submitting' = 0 /\ pen' = 0 /\ running' = 0 /\ calls' = [i \in Drawn |-> "idle"]
  /\ UNCHANGED <<storeVars, engineVars, files, row, paid, removed, removals>>

AttachmentsNext ==
  \/ EndWrite \/ Start \/ StartRow \/ Serve \/ Die
  \/ \E o \in Operations :
       \/ StartWrite(o) \/ FileFault(o) \/ Remove(o)
       \/ Submit(o) \/ SubmitEnds(o) \/ FinishRow(o) \/ Resolve(o)
       \/ \E cancelled \in BOOLEAN : TurnEnds(o, cancelled)
  \/ \E c \in ImageCalls : CallImage(c) \/ CallFails(c)
  \/ \E i \in Drawn : SaveImage(i) \/ AnswerModel(i) \/ \E drawn \in BOOLEAN : Answered(i, drawn)

AttachmentsSpec == AttachmentsInit /\ [][AttachmentsNext]_attachedVars

-----------------------------------------------------------------------------
(* Whatever the model was told of it can open again: every image named in a *)
(* prompt or in a tool's answer is in the store, also after a death         *)
(* (tools/index.ts:28-30,49-53,66, partner.ts:186-189).                     *)
Openable == DOMAIN images \union { Attached(o) : o \in rows }

(* An image belongs to the message whose turn asked for it, although the    *)
(* next turn may have begun when it is saved (tools/index.ts:44,66).        *)
ImagesKept ==
  /\ given \subseteq Openable
  /\ \A i \in DOMAIN images : images[i] = i[1]

(* A call the engine repeats never pays for an image that was saved         *)
(* (tools/index.ts:46-48).                                                  *)
PaidOnce == [][\A i \in DOMAIN images : paid'[i] = paid[i]]_attachedVars

(* The files a message names are in the workspace when its turn is prompted *)
(* and after every start, also for settled messages, unless they were       *)
(* removed since (images.ts:35-44, partner.ts:136-139).                     *)
AttachmentsRestored ==
  \A o \in prompted : Owned(o) => files[o] # "absent" \/ o \in removed
=============================================================================
