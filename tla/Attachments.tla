------------------------------ MODULE Attachments ------------------------------
(***************************************************************************)
(* The way of a file into a request: AttachmentManager                     *)
(* (engine/storage/attachment_manager.cpp), the tray and the send action   *)
(* of ChatPanel (ui/chat_panel.cpp), ImageTransit (network/base64.hpp),    *)
(* and the two ends of EVT_USER_PROMPT, MainFrame and StreamWorker.        *)
(*                                                                         *)
(* All of it runs on the UI thread.  A document is parsed when it is       *)
(* attached and its text is kept; an image is only measured then and read  *)
(* when the prompt is sent; and the prompt and its images take different   *)
(* ways to the request: the prompt as a queued event, the images through   *)
(* one static slot.  Meanwhile other programs may change the files.        *)
(***************************************************************************)
EXTENDS Naturals, Sequences, FiniteSets, SequencesExt

CONSTANTS File,            \* paths the user may select
          Image, Pdf,      \* the ones with an image extension, with extension .pdf
          Content,         \* what a file can hold: [size, parses, chars]
          Gone,            \* there is no such file
          Prompt,          \* prompts, each sent at most once
          MaxImageSize,    \* max_image_size_bytes
          MaxPdfSize,      \* max_pdf_size_bytes
          MaxCount,        \* max_attachment_count
          MaxTokens,       \* max_total_estimated_tokens
          TokensPerImage,  \* tokens_per_vision_image
          CharsPerToken,   \* approx_chars_per_token
          MaxSelected,     \* bound: files selected in one dialog
          MaxEdits         \* bound: changes other programs make to files

ASSUME ExtensionAssumption == Image \cup Pdf \subseteq File /\ Image \cap Pdf = {}
ASSUME ContentAssumption == Content \subseteq [size : Nat, parses : BOOLEAN, chars : Nat]
ASSUME LimitAssumption ==
  /\ {MaxImageSize, MaxPdfSize, MaxCount, MaxTokens, TokensPerImage} \subseteq Nat
  /\ {MaxSelected, MaxEdits} \subseteq Nat
  /\ CharsPerToken \in Nat \ {0}

VARIABLES
  disk,       \* the files
  selection,  \* files of the dialog that on_attach_action has not analysed yet
  pending,    \* m_pending_attachments
  chips,      \* the tray: the file each chip names; its button holds its index
  queued,     \* EVT_USER_PROMPT events: [prompt, empty], oldest first
  transit,    \* ImageTransit::m_images
  staged,     \* what SetPendingImages was given for each prompt
  requests,   \* what InitializeGeneration spawned: [prompt, images], oldest first
  edits       \* changes other programs made so far

tray == <<pending, chips>>
vars == <<disk, selection, tray, queued, transit, staged, requests, edits>>

\* classify_attachment_type
Type(f) == IF f \in Image THEN "image" ELSE "document"

\* An image as it is sent: the prompt it was read for, the file and what it held.
Picture == [prompt : Prompt, file : File, content : Content]

\* Images on their way to a request, by their position in the tray they were sent from.
Gallery == UNION {[places -> Picture] : places \in SUBSET (1..MaxCount)}

\* text: the length of m_cached_text, zero for an image.
Attachment == [file : File, type : {"image", "document"}, size : Nat, text : Nat, tokens : Nat]

TypeOK ==
  /\ disk \in [File -> Content \cup {Gone}]
  /\ selection \in Seq(File)
  /\ pending \in Seq(Attachment)
  /\ chips \in Seq(File)
  /\ queued \in Seq([prompt : Prompt, empty : BOOLEAN])
  /\ transit \in Gallery
  /\ DOMAIN staged \subseteq Prompt
  /\ \A p \in DOMAIN staged : staged[p] \in Gallery
  /\ requests \in Seq([prompt : Prompt, images : Gallery])
  /\ edits \in 0..MaxEdits

Init ==
  /\ disk \in [File -> Content]
  /\ selection = <<>>
  /\ pending = <<>>
  /\ chips = <<>>
  /\ queued = <<>>
  /\ transit = <<>>
  /\ staged = [p \in {} |-> <<>>]
  /\ requests = <<>>
  /\ edits = 0

-----------------------------------------------------------------------------
(* AttachmentManager.                                                      *)

Total(attachments) == SumFunction([i \in DOMAIN attachments |-> attachments[i].tokens])

\* What an attachment of f counts against the budget: an image a fixed number of
\* tokens, a document the ones of its extracted text, rounded down.
Estimate(f) == IF f \in Image THEN TokensPerImage ELSE disk[f].chars \div CharsPerToken

\* Mutant: the budget is tested for the new file alone.
AcceptableAlone(f) ==
  /\ disk[f] # Gone
  /\ Len(pending) < MaxCount
  /\ f \in Image => disk[f].size <= MaxImageSize
  /\ f \in Pdf => disk[f].size <= MaxPdfSize
  /\ f \notin Image => disk[f].parses
  /\ Estimate(f) <= MaxTokens

\* The tests of AnalyzeAndAdd, in any order: each failed one ends it without effect.
Acceptable(f) ==
  /\ disk[f] # Gone
  /\ Len(pending) < MaxCount
  /\ f \in Image => disk[f].size <= MaxImageSize
  /\ f \in Pdf => disk[f].size <= MaxPdfSize
  /\ f \notin Image => disk[f].parses
  /\ Total(pending) + Estimate(f) <= MaxTokens

Queue(f) ==
  pending' = Append(pending, [file |-> f, type |-> Type(f), size |-> disk[f].size,
                              text |-> IF f \in Image THEN 0 ELSE disk[f].chars,
                              tokens |-> Estimate(f)])

\* Mutant: the tray is rebuilt before the change.
RefreshTrayEarly == chips' = [i \in DOMAIN pending |-> pending[i].file]

\* refresh_attachment_tray
RefreshTray == chips' = [i \in DOMAIN pending' |-> pending'[i].file]

-----------------------------------------------------------------------------
(* ImageTransit.                                                           *)

\* Mutant: the images are copied, not moved.
CopyPendingImages == UNCHANGED transit

SetPendingImages(images) == transit' = images
MovePendingImages == transit' = <<>>

-----------------------------------------------------------------------------
(* The user.  Nothing else happens on the UI thread while a selection is   *)
(* worked through.                                                         *)

\* The file dialog returns with some files.  Its nested event loop has delivered what
\* was posted before by then, and no prompt can be sent while it is open.
Select(files) ==
  /\ selection = <<>> /\ files # <<>> /\ queued = <<>>
  /\ selection' = files
  /\ UNCHANGED <<disk, tray, queued, transit, staged, requests, edits>>

\* One turn of the loop of on_attach_action, after the last of which the tray is
\* rebuilt.  A file that passes every test may still not be readable.
Analyze ==
  /\ selection # <<>>
  /\ selection' = Tail(selection)
  /\ \/ Acceptable(Head(selection)) /\ Queue(Head(selection))
     \/ UNCHANGED pending
  /\ IF selection' = <<>> THEN RefreshTray ELSE UNCHANGED chips
  /\ UNCHANGED <<disk, queued, transit, staged, requests, edits>>

\* The close button of chip i: RemoveByIndex with the index it was built with.
RemoveByIndex(i) ==
  /\ selection = <<>> /\ i \in DOMAIN chips
  /\ pending' = IF i \in DOMAIN pending THEN RemoveAt(pending, i) ELSE pending
  /\ RefreshTray
  /\ UNCHANGED <<disk, selection, queued, transit, staged, requests, edits>>

\* The images among the attachments that can still be opened, as they are now.
Pictures(p) ==
  [i \in {j \in DOMAIN pending : pending[j].type = "image" /\ disk[pending[j].file] # Gone} |->
      [prompt |-> p, file |-> pending[i].file, content |-> disk[pending[i].file]]]

\* The prompt that is posted: what was typed and the text of the documents.
EmptyPrompt(typed) ==
  ~typed /\ \A i \in DOMAIN pending : pending[i].text = 0

\* on_send_action; typed: the input field is not empty.
Send(p, typed) ==
  /\ selection = <<>> /\ p \notin DOMAIN staged
  /\ typed \/ pending # <<>>
  /\ staged' = [q \in DOMAIN staged \cup {p} |-> IF q = p THEN Pictures(p) ELSE staged[q]]
  /\ IF Pictures(p) # <<>> THEN SetPendingImages(Pictures(p)) ELSE UNCHANGED transit
  /\ queued' = Append(queued, [prompt |-> p, empty |-> EmptyPrompt(typed)])
  /\ pending' = <<>>
  /\ RefreshTray
  /\ UNCHANGED <<disk, selection, requests, edits>>

-----------------------------------------------------------------------------
(* The event loop and other programs.                                      *)

\* on_user_prompt_submitted drops an empty prompt, and nothing else with it; any
\* other prompt reaches InitializeGeneration, which takes the images there are.
HandlePrompt ==
  /\ selection = <<>> /\ queued # <<>>
  /\ queued' = Tail(queued)
  /\ IF Head(queued).empty
       THEN UNCHANGED <<requests, transit>>
       ELSE /\ requests' = Append(requests, [prompt |-> Head(queued).prompt, images |-> transit])
            /\ MovePendingImages
  /\ UNCHANGED <<disk, selection, tray, staged, edits>>

Change(f) ==
  /\ edits < MaxEdits
  /\ edits' = edits + 1
  /\ \E c \in Content \cup {Gone} : disk' = [disk EXCEPT ![f] = c]
  /\ UNCHANGED <<selection, tray, queued, transit, staged, requests>>

Next ==
  \/ Analyze \/ HandlePrompt
  \/ \E files \in BoundedSeq(File, MaxSelected) : Select(files)
  \/ \E i \in 1..MaxCount : RemoveByIndex(i)
  \/ \E p \in Prompt, typed \in BOOLEAN : Send(p, typed)
  \/ \E f \in File : Change(f)

Spec == Init /\ [][Next]_vars

-----------------------------------------------------------------------------
(* Properties.                                                             *)

\* However files are attached, removed and sent, and whatever becomes of them on disk,
\* the attachments waiting for the next prompt never count more than the token budget,
\* are never more than the tray holds, and no image among them was too large.
BudgetKept ==
  /\ Len(pending) <= MaxCount
  /\ Total(pending) <= MaxTokens
  /\ \A i \in DOMAIN pending : pending[i].file \in Image => pending[i].size <= MaxImageSize

\* While the user can click, the close button of a chip removes the file that the chip
\* names: the index captured in it is never left over from an earlier tray.
ChipRemovesItsFile ==
  selection = <<>> => chips = [i \in DOMAIN pending |-> pending[i].file]

\* A request carries images that were staged together, all of them and each at its place
\* in the tray, or none; and no other request carries them as well.  A prompt without
\* images would otherwise get those of an earlier one, or part of them.
ImagesOfOnePrompt ==
  \A i \in DOMAIN requests :
     \/ requests[i].images = <<>>
     \/ \E p \in DOMAIN staged :
           /\ requests[i].images = staged[p]
           /\ \A j \in DOMAIN requests : j # i => requests[j].images # staged[p]
=============================================================================
