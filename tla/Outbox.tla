------------------------------- MODULE Outbox -------------------------------
(***************************************************************************)
(* What the user writes on its way to the partner: the composer and the    *)
(* image drafts of Companion.svelte, and the outgoing messages of the page *)
(* (send, observeOutgoing) with their local echo, their retirement and the *)
(* ids kept for a retry.                                                   *)
(*                                                                         *)
(* A request is admitted by the server at any time after it was sent, also *)
(* after the page took it for failed, or never.  Reading the page's feed   *)
(* (MessageFeed) is one action: another admitted row becomes visible.      *)
(* Ids are fresh per submission, so a submission's number is its id.       *)
(***************************************************************************)
EXTENDS Naturals, FiniteSets, SequencesExt

CONSTANTS
  Words,      \* what can be typed, abstractly
  Compact,    \* the text of the /compact command, one of Words
  Images,     \* image files the user can attach, each with its preview URL
  None,
  MaxImages,  \* ImageAttachmentLimits.maxImagesPerMessage
  MaxDraft,   \* bound: words in the draft while the user types
  MaxSends    \* bound: submissions

ASSUME OutboxAssumption ==
  /\ Compact \in Words /\ None \notin Images
  /\ MaxImages \in Nat /\ MaxDraft \in Nat /\ MaxSends \in Nat

VARIABLES
  \* Companion: the composer, the lightbox and the preview URLs
  draft, images,
  lightbox,      \* the image previewed in the dialog, None when it is closed
  deferred,      \* deferredPreviewReleases
  revoked,       \* preview URLs given back to the browser
  used,          \* images that were attached
  \* the page
  sends,         \* the calls of send(), in order
  outgoing,      \* local echoes: the submissions still shown by the page itself
  pending,       \* ids of unconfirmed messages, by content
  retirements,   \* ids somebody waits to be observed, with the submission
  shown,         \* ids of session.messages
  \* the server
  wire, rows

composer == <<draft, images>>
previews == <<lightbox, deferred, revoked, used>>
page == <<sends, outgoing, pending, retirements, shown>>
server == <<wire, rows>>
vars == <<composer, previews, page, server>>

Ids == 1..MaxSends
Message == [id : Ids, text : Seq(Words), images : Seq(Images)]
Send == [id : Ids, text : Seq(Words), images : Seq(Images),
         phase : {"serializing", "posting", "command", "ended"},
         retired : {"no", "observed", "failed"}]

TypeOK ==
  /\ draft \in Seq(Words) /\ images \in Seq(Images)
  /\ lightbox \in Images \union {None}
  /\ deferred \subseteq Images /\ revoked \subseteq Images /\ used \subseteq Images
  /\ sends \in Seq(Send) /\ Len(sends) =< MaxSends
  /\ outgoing \subseteq DOMAIN sends
  /\ pending \subseteq Message
  /\ \A m, n \in pending : m.text = n.text /\ m.images = n.images => m = n
  /\ retirements \subseteq [id : Ids, send : DOMAIN sends]
  /\ shown \subseteq Ids /\ wire \subseteq Message /\ rows \subseteq Message

Init ==
  /\ draft = <<>> /\ images = <<>>
  /\ lightbox = None /\ deferred = {} /\ revoked = {} /\ used = {}
  /\ sends = <<>> /\ outgoing = {} /\ pending = {} /\ retirements = {} /\ shown = {}
  /\ wire = {} /\ rows = {}

-----------------------------------------------------------------------------
(* The composer.  The lightbox is a modal dialog: while it is open the user *)
(* can only close it.                                                       *)

TypeWord(w) ==
  /\ lightbox = None /\ Len(draft) < MaxDraft
  /\ draft' = Append(draft, w)
  /\ UNCHANGED <<images, previews, page, server>>

Erase ==
  /\ lightbox = None /\ draft # <<>>
  /\ draft' = <<>>
  /\ UNCHANGED <<images, previews, page, server>>

\* addImages: a draft that would exceed the limit is refused as a whole.
AddImage(i) ==
  /\ lightbox = None /\ i \notin used /\ Len(images) < MaxImages
  /\ images' = Append(images, i) /\ used' = used \union {i}
  /\ UNCHANGED <<draft, lightbox, deferred, revoked, page, server>>

\* Mistaken: the image in the lightbox is released with the others.
ReleaseAll(released) == revoked' = revoked \union released /\ UNCHANGED deferred

\* releaseSubmissionImages: what the lightbox shows is kept until it closes.
Release(released) ==
  /\ deferred' = deferred \union (released \intersect {lightbox})
  /\ revoked' = revoked \union (released \ {lightbox})

RemoveImage(i) ==
  /\ lightbox = None
  /\ \E k \in DOMAIN images : images[k] = i /\ images' = RemoveAt(images, k)
  /\ Release({i})
  /\ UNCHANGED <<draft, lightbox, used, page, server>>

\* Images the view shows: drafts, and local echoes the feed does not cover.
Echoed == { s \in outgoing : sends[s].id \notin shown }
Displayed == ToSet(images) \union UNION { ToSet(sends[s].images) : s \in Echoed }

OpenLightbox(i) ==
  /\ lightbox = None /\ i \in Displayed
  /\ lightbox' = i
  /\ UNCHANGED <<composer, deferred, revoked, used, page, server>>

CloseLightbox ==
  /\ lightbox # None
  /\ lightbox' = None
  /\ revoked' = revoked \union deferred /\ deferred' = {}
  /\ UNCHANGED <<composer, used, page, server>>

-----------------------------------------------------------------------------
(* submit() and send() up to its first await.  A lone /compact is posted as *)
(* a command; with images it is an ordinary message.                        *)
Submit ==
  /\ lightbox = None /\ Len(sends) < MaxSends
  /\ draft # <<>> \/ images # <<>>
  /\ LET s == Len(sends) + 1
         command == draft = <<Compact>> /\ images = <<>>
     IN /\ sends' = Append(sends, [id |-> s, text |-> draft, images |-> images, retired |-> "no",
                                   phase |-> IF command THEN "command" ELSE "serializing"])
        /\ outgoing' = IF command THEN outgoing ELSE outgoing \union {s}
  /\ draft' = <<>> /\ images' = <<>>
  /\ UNCHANGED <<previews, pending, retirements, shown, server>>

Keyed(s, m) == m.text = sends[s].text /\ m.images = sends[s].images
WithoutKey(s) == { m \in pending : ~Keyed(s, m) }

\* Mistaken: observing one message forgets who waits for the others.
ObserveFirst(seen, current, registered, kept) ==
  LET observed == { r \in registered : r.id \in seen }
      told == { r.send : r \in observed }
  IN /\ outgoing' = { s \in outgoing : current[s].id \notin seen }
     /\ retirements' = IF observed = {} THEN registered ELSE {}
     /\ pending' = { m \in kept : \A s \in told : ~Keyed(s, m) }
     /\ sends' = [s \in DOMAIN current |->
          IF s \in told THEN [current[s] EXCEPT !.retired = "observed"] ELSE current[s]]
     /\ Release(UNION { ToSet(current[s].images) : s \in told })

(* observeOutgoing for the ids the session shows: their echoes go, and who  *)
(* waits for one of them is told, which forgets the pending id of its       *)
(* content and releases its previews.                                       *)
Observe(seen, current, registered, kept) ==
  LET observed == { r \in registered : r.id \in seen }
      told == { r.send : r \in observed }
  IN /\ outgoing' = { s \in outgoing : current[s].id \notin seen }
     /\ retirements' = registered \ observed
     /\ pending' = { m \in kept : \A s \in told : ~Keyed(s, m) }
     /\ sends' = [s \in DOMAIN current |->
          IF s \in told THEN [current[s] EXCEPT !.retired = "observed"] ELSE current[s]]
     /\ Release(UNION { ToSet(current[s].images) : s \in told })

\* Mistaken: the text alone identifies a message.
RetriedByText(s, m) == m.text = sends[s].text

\* The message is taken for a retry of m.
Retried(s, m) == Keyed(s, m)

(* The images are read and hashed: the key is known.  A pending message of  *)
(* the same content is sent again under its id, and may already be visible. *)
Serialized(s) ==
  /\ sends[s].phase = "serializing"
  /\ \E id \in IF \E m \in pending : Retried(s, m)
               THEN { m.id : m \in { n \in pending : Retried(s, n) } }
               ELSE {sends[s].id} :
       LET current == [sends EXCEPT ![s].id = id, ![s].phase = "posting"]
       IN /\ Observe(shown, current,
                     { r \in retirements : r.id # id } \union {[id |-> id, send |-> s]},
                     WithoutKey(s))
          /\ wire' = wire \union {[id |-> id, text |-> sends[s].text, images |-> sends[s].images]}
  /\ UNCHANGED <<composer, lightbox, used, shown, rows>>

\* Mistaken: an observed message is given back all the same.
FailedRegardless(s, kept) ==
  /\ sends' = [sends EXCEPT ![s].phase = "ended", ![s].retired = "failed"]
  /\ outgoing' = { t \in outgoing : sends[t].id # sends[s].id }
  /\ retirements' = { r \in retirements : r.id # sends[s].id }
  /\ pending' = kept
  /\ draft' = sends[s].text \o draft
  /\ images' = images \o sends[s].images

\* Mistaken: the echo of a failed message stays.
FailedWithEcho(s, kept) ==
  IF sends[s].retired = "observed"
  THEN /\ sends' = [sends EXCEPT ![s].phase = "ended"]
       /\ UNCHANGED <<composer, outgoing, pending, retirements>>
  ELSE /\ sends' = [sends EXCEPT ![s].phase = "ended", ![s].retired = "failed"]
       /\ retirements' = { r \in retirements : r.id # sends[s].id }
       /\ pending' = kept
       /\ draft' = sends[s].text \o draft
       /\ images' = images \o sends[s].images
       /\ UNCHANGED outgoing

(* The catch of send(): a message already observed needs nothing; else its  *)
(* echo goes and the draft gets its content back.                           *)
Failed(s, kept) ==
  IF sends[s].retired = "observed"
  THEN /\ sends' = [sends EXCEPT ![s].phase = "ended"]
       /\ UNCHANGED <<composer, outgoing, pending, retirements>>
  ELSE /\ sends' = [sends EXCEPT ![s].phase = "ended", ![s].retired = "failed"]
       /\ outgoing' = { t \in outgoing : sends[t].id # sends[s].id }
       /\ retirements' = { r \in retirements : r.id # sends[s].id }
       /\ pending' = kept
       /\ draft' = sends[s].text \o draft
       /\ images' = images \o sends[s].images

\* pending.set
Unconfirmed(s) ==
  WithoutKey(s) \union {[id |-> sends[s].id, text |-> sends[s].text, images |-> sends[s].images]}

SerializeFails(s) ==
  /\ sends[s].phase = "serializing" /\ sends[s].images # <<>>
  /\ Failed(s, pending)
  /\ UNCHANGED <<previews, shown, server>>

\* The reply is lost, is not 200, or the request never got through.
PostFails(s) ==
  /\ sends[s].phase = "posting"
  /\ Failed(s, Unconfirmed(s))
  /\ UNCHANGED <<previews, shown, server>>

Of(s) == { m \in wire : m.id = sends[s].id }

\* 422: the content itself is refused, so the id is of no use for a retry.
Rejected(s) ==
  /\ sends[s].phase = "posting" /\ Of(s) # {}
  /\ wire' = wire \ Of(s)
  /\ Failed(s, pending)
  /\ UNCHANGED <<previews, shown, rows>>

\* The reply arrives; the refresh it asks for is a later Refresh.
Answered(s) ==
  /\ sends[s].phase = "posting"
  /\ \E m \in rows : m.id = sends[s].id
  /\ sends' = [sends EXCEPT ![s].phase = "ended"]
  /\ UNCHANGED <<composer, previews, outgoing, pending, retirements, shown, server>>

CommandAnswered(s) ==
  /\ sends[s].phase = "command"
  /\ sends' = [sends EXCEPT ![s].phase = "ended"]
  /\ UNCHANGED <<composer, previews, outgoing, pending, retirements, shown, server>>

\* The command returns to the draft unless something was submitted since.
CommandFails(s) ==
  /\ sends[s].phase = "command"
  /\ sends' = [sends EXCEPT ![s].phase = "ended"]
  /\ draft' = IF s = Len(sends) THEN sends[s].text \o draft ELSE draft
  /\ UNCHANGED <<images, previews, outgoing, pending, retirements, shown, server>>

-----------------------------------------------------------------------------
\* Store.admit: the first request of an id makes its row, later ones find it.
Admit(m) ==
  /\ m \in wire
  /\ wire' = wire \ {m}
  /\ rows' = IF \E n \in rows : n.id = m.id THEN rows ELSE rows \union {m}
  /\ UNCHANGED <<composer, previews, page>>

LoseRequest(m) ==
  /\ m \in wire
  /\ wire' = wire \ {m}
  /\ UNCHANGED <<composer, previews, page, rows>>

Refresh(m) ==
  /\ m \in rows
  /\ shown' = shown \union {m.id}
  /\ Observe(shown', sends, retirements, pending)
  /\ UNCHANGED <<composer, lightbox, used, server>>

Next ==
  \/ \E w \in Words : TypeWord(w)
  \/ \E i \in Images : AddImage(i) \/ RemoveImage(i) \/ OpenLightbox(i)
  \/ Erase \/ CloseLightbox \/ Submit
  \/ \E s \in DOMAIN sends :
       \/ Serialized(s) \/ SerializeFails(s)
       \/ PostFails(s) \/ Rejected(s) \/ Answered(s)
       \/ CommandAnswered(s) \/ CommandFails(s)
  \/ \E m \in wire : Admit(m) \/ LoseRequest(m)
  \/ \E m \in rows : Refresh(m)

(* Files are read or fail, requests end with a reply or an error, and the   *)
(* feed shows what was admitted (MessageFeed's EveryChangeArrives).         *)
Fairness ==
  /\ \A s \in Ids :
       /\ WF_vars(s \in DOMAIN sends /\ (Serialized(s) \/ SerializeFails(s)))
       /\ WF_vars(s \in DOMAIN sends /\ (PostFails(s) \/ Rejected(s) \/ Answered(s)))
  /\ WF_vars(\E m \in rows : Refresh(m))

Spec == Init /\ [][Next]_vars /\ Fairness

-----------------------------------------------------------------------------
InFlight(s) == sends[s].phase \in {"serializing", "posting"}
Ordinary == { s \in DOMAIN sends : ~(sends[s].text = <<Compact>> /\ sends[s].images = <<>>) }

(* Nothing the user submitted is lost: until it is given back to the draft, *)
(* its request is still to be made or answered, or the server has exactly   *)
(* this content under the id it was sent with (+page.svelte:105-130).       *)
NothingLost ==
  \A s \in Ordinary :
    \/ InFlight(s) \/ sends[s].retired = "failed"
    \/ \E m \in rows : m.id = sends[s].id /\ Keyed(s, m)

(* A preview is never revoked while it is on the screen, and each one that  *)
(* is not revoked has somebody who will: the composer, a submission not yet *)
(* retired, or the closing lightbox (Companion.svelte:406-441, 457-483).    *)
PreviewsOwned ==
  LET held == ToSet(images) \union deferred
              \union UNION { ToSet(sends[s].images) :
                               s \in { t \in DOMAIN sends : sends[t].retired = "no" } }
  IN /\ used \ revoked = held
     /\ (Displayed \union {lightbox}) \intersect revoked = {}

(* The view never shows two bubbles of one message: neither an echo beside  *)
(* the row nor the echoes of a message and of its retry                     *)
(* (+page.svelte:33-37, 44, 114-119).                                       *)
OneBubble ==
  \A s, t \in Echoed : sends[s].id = sends[t].id => s = t

(* A submission is at exactly one place for its user, whatever its requests *)
(* and retries do (+page.svelte:105-130).                                   *)
NeitherLostNorDoubled == NothingLost /\ OneBubble

(* A submission is retired once, and one that failed stays failed: its      *)
(* content is not given back and then also reported as observed, or twice   *)
(* (+page.svelte:117-129).                                                  *)
RetiredOnce ==
  [][ \A s \in DOMAIN sends :
        sends[s].retired # "no" => sends'[s].retired = sends[s].retired ]_vars

(* Every submission ends on the screen: its message is observed, or its     *)
(* content is back in the draft, also when the reply is lost or the message *)
(* was visible before its retry was posted (+page.svelte:117-129).          *)
SettlesEventually ==
  \A s \in Ids :
    (s \in DOMAIN sends /\ InFlight(s)) ~> (s \in DOMAIN sends /\ sends[s].retired # "no")
=============================================================================
