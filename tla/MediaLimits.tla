---------------------------- MODULE MediaLimits ----------------------------
(***************************************************************************)
(* The admission rules of everything larger than text: a recording passes  *)
(* the browser, the HTTP route and the provider adapter, an image passes   *)
(* the browser, the HTTP route and, when it is edited, the image bridge.   *)
(* Each of them computes its limit on its own (voice-contract.ts,          *)
(* voice-input.ts, server.ts, speech.ts; image-drafts.ts, images.ts,       *)
(* image-core.ts), and this module states what makes them agree.           *)
(*                                                                         *)
(* Sizes are the numbers of the code.  A payload is its length; a media    *)
(* type is what the normalisation looks at; Base64 text is a sequence of   *)
(* the classes of characters the checks tell apart: "even" and "odd" are   *)
(* alphabet characters whose low bits are clear and set, "pad" is "=", and *)
(* "other" is any character outside the alphabet.                          *)
(***************************************************************************)
EXTENDS Integers, Sequences, FiniteSetsExt

Undefined == -1                  \* the `undefined` of a function returning a length

Base64Chars(n) == 4 * ((n + 2) \div 3)             \* Math.ceil(n / 3) * 4

Total(lengths) == MapThenSumSet(LAMBDA i : lengths[i], DOMAIN lengths)

-----------------------------------------------------------------------------
(* Recordings.  A declared media type is [length, ascii, wellFormed,       *)
(* listed, trimmed]: its length as given and trimmed, whether it is ASCII, *)
(* matches the pattern of a type with parameters, and names an allowlisted *)
(* base type.  A normalised type is represented by its length.             *)

MaxVoiceDataUrlBytes == 10 * 1024 * 1024

CONSTANT MaxSafeInteger            \* 2^53 - 1 in the code

ASSUME SafeAssumption == MaxSafeInteger \in Nat /\ MaxSafeInteger >= 8 * MaxVoiceDataUrlBytes

NormalizeVoiceMediaType(type) ==
  IF type.length <= 256 /\ type.ascii /\ type.wellFormed /\ type.listed
  THEN type.trimmed ELSE Undefined

VoiceDataUrlPrefix(type) ==
  LET length == NormalizeVoiceMediaType(type)
  IN  IF length = Undefined THEN Undefined ELSE length + 13

VoiceBase64Length(bytes) ==
  IF bytes >= 0 /\ bytes <= 3 * (MaxSafeInteger \div 4) THEN Base64Chars(bytes) ELSE Undefined

VoiceDataUrlByteLength(type, bytes) ==
  IF VoiceDataUrlPrefix(type) = Undefined \/ VoiceBase64Length(bytes) = Undefined
  THEN Undefined
  ELSE VoiceDataUrlPrefix(type) + VoiceBase64Length(bytes)

\* Mistaken: three bytes for every four characters, without whole groups.
BytesOfCharacters(available) == IF available < 4 THEN 0 ELSE (3 * available) \div 4

\* Largest number of bytes whose complete data URL stays within the limit.
BytesWithin(available) == IF available < 4 THEN 0 ELSE 3 * (available \div 4)

MaxVoiceAudioBytes(type, limit) ==
  IF VoiceDataUrlPrefix(type) = Undefined \/ limit < 0 THEN Undefined
  ELSE BytesWithin(limit - VoiceDataUrlPrefix(type))

MaxVoiceBase64Chars(type, limit) ==
  IF MaxVoiceAudioBytes(type, limit) = Undefined THEN Undefined
  ELSE VoiceBase64Length(MaxVoiceAudioBytes(type, limit))

IsVoiceAudioWithinDataUrlLimit(type, bytes, limit) ==
  LET length == VoiceDataUrlByteLength(type, bytes)
  IN  length # Undefined /\ length <= limit

\* The browser: validateVoiceRecording, with the recorder's own cap in maxBytes.
BrowserAdmits(type, bytes, maxBytes) ==
  LET most == MaxVoiceAudioBytes(type, MaxVoiceDataUrlBytes)
  IN  /\ NormalizeVoiceMediaType(type) # Undefined
      /\ bytes > 0
      /\ bytes <= IF maxBytes < most THEN maxBytes ELSE most
      /\ IsVoiceAudioWithinDataUrlLimit(type, bytes, MaxVoiceDataUrlBytes)

\* The route: the content-type header, then every chunk of the body as it arrives.
RouteAdmits(type, chunks) ==
  LET length == NormalizeVoiceMediaType(type)
  IN  /\ length # Undefined
      /\ \A k \in 1 .. Len(chunks) :
           Base64Chars(Total(SubSeq(chunks, 1, k))) + length + 13 <= MaxVoiceDataUrlBytes

\* The provider adapter: the data URL it sends.
ProviderAdmits(type, bytes) ==
  LET length == NormalizeVoiceMediaType(type)
  IN  length # Undefined /\ bytes > 0 /\ length + 13 + Base64Chars(bytes) <= MaxVoiceDataUrlBytes

\* Without Node's Buffer the browser encodes chunk by chunk and concatenates:
\* the text is the encoding of the whole when no chunk but the last is padded.
EncodeChunk == 24576                                               \* 0x6000
EncodedChunks(bytes) ==
  LET full == bytes \div EncodeChunk
      rest == bytes % EncodeChunk
  IN  [length |-> full * Base64Chars(EncodeChunk) + Base64Chars(rest),
       paddedInside |-> EncodeChunk % 3 # 0 /\ (full > 1 \/ (full = 1 /\ rest > 0))]

\* A transcript is [units, points, emotion]: its trimmed length in UTF-16 units
\* and in code points, and the emotion of the first recognised annotation.
MaxMessageLength == 16000
VoiceTranscriptMaxChars == 20000
Expressions == {"surprised", "neutral", "happy", "sad", "disgusted", "angry", "fearful"}

MaxLabelLength == 9                                                \* "surprised", "disgusted"

FirstExpression(labels) ==
  LET known == {i \in 1 .. Len(labels) : labels[i] \in Expressions}
  IN  IF known = {} THEN "none" ELSE labels[CHOOSE i \in known : \A j \in known : i <= j]

\* transcribeAudio: the reply of at most 1 MiB with nonempty text of a message's length.
ProviderReturns(reply) ==
  reply.bytes <= 1024 * 1024 /\ reply.units > 0 /\ reply.units <= MaxMessageLength

\* normalizeVoiceTranscription in the browser, which takes the normalised label.
BrowserAccepts(units, points) == units > 0 /\ points <= VoiceTranscriptMaxChars

\* formatVoiceTurn: the microphone sign, the text and the label in brackets.
VoiceTurnUnits(units, label) == 4 + units + (IF label = "none" THEN 0 ELSE 3 + MaxLabelLength)

-----------------------------------------------------------------------------
(* Base64 text.                                                            *)

Alphabet == {"even", "odd"}

\* isCanonicalBase64: one pass with the count of "=" seen so far.
IsCanonicalBase64(text, maxChars) ==
  LET n == Len(text)
      Padding(i) == Cardinality({j \in 1 .. i : text[j] = "pad"})
  IN  /\ n > 0 /\ n % 4 = 0
      /\ maxChars = Undefined \/ n <= maxChars
      /\ \A i \in 1 .. n :
           \/ text[i] = "pad" /\ Padding(i) <= 2 /\ i > n - 2
           \/ text[i] \in Alphabet /\ Padding(i) = 0

\* decodeImageDataUrl: the expression, the length, and the same text again when
\* the decoded bytes are encoded (the low bits of the last character are clear).
DecodesAsImage(text) ==
  LET n == Len(text)
      pads == {i \in 1 .. n : text[i] = "pad"}
  IN  /\ n > 0 /\ n % 4 = 0
      /\ \A i \in 1 .. n : text[i] # "other"
      /\ pads \in {{}, {n}, {n - 1, n}}
      /\ pads # {} => text[n - Cardinality(pads)] = "even"

-----------------------------------------------------------------------------
(* Images.  One is [size, type, matches, clean, name]: its decoded size,   *)
(* its media type, whether the bytes begin as that type does, whether its  *)
(* text decodes, and the length of its name.                               *)

ImageTypes == {"image/png", "image/jpeg", "image/webp", "image/gif"}
MaxImages == 5
MaxImageBytes == 5 * 1024 * 1024
MaxMessageImageBytes == 20 * 1024 * 1024
MaxNameLength == 160
\* Mistaken: a limit for the image bytes alone.
BodyLimitOfImages == Base64Chars(MaxMessageImageBytes)

MessageBodyLimit == Base64Chars(MaxMessageImageBytes) + 128 * 1024

Sizes(images) == [i \in DOMAIN images |-> images[i].size]

\* imageIntakeError: what the composer checks before it takes the files.
IntakeError(current, incoming) ==
  IF incoming = <<>> THEN "none"
  ELSE IF \E i \in 1 .. Len(incoming) : incoming[i].type \notin ImageTypes THEN "types"
  ELSE IF Len(current) + Len(incoming) > MaxImages THEN "count"
  ELSE IF \E i \in 1 .. Len(incoming) : incoming[i].size > MaxImageBytes THEN "too-large"
  ELSE IF Total(Sizes(current)) + Total(Sizes(incoming)) > MaxMessageImageBytes THEN "total"
  ELSE "none"

\* The files of a paste: the items that are files of an image type and can be
\* read, and only when there are none the file list.
ImageFilesFromClipboard(items, files) ==
  LET Images(s) == SelectSeq(s, LAMBDA f : f.image)
      read == SelectSeq(Images(items), LAMBDA f : f.kind = "file" /\ f.readable)
  IN  IF read # <<>> THEN read ELSE Images(files)

\* A camera picture: the first of the three declarations that names a type, and
\* no file without a path, a good answer and a type.
CapturedType(media) ==
  LET named == SelectSeq(<<media.blob, media.format, media.url>>, LAMBDA t : t \in ImageTypes)
  IN  IF media.path /\ media.ok /\ named # <<>> THEN named[1] ELSE "none"

\* imageInputSchema and the message's schema.
SchemaAdmits(units, images) ==
  /\ units <= MaxMessageLength
  /\ Len(images) <= MaxImages
  /\ units > 0 \/ Len(images) > 0
  /\ \A i \in 1 .. Len(images) :
       /\ images[i].type \in ImageTypes
       /\ Base64Chars(images[i].size) <= Base64Chars(MaxImageBytes)
       /\ images[i].name <= MaxNameLength

\* inputImages, which stops at the first image it cannot take.
InputImagesAdmit(images) ==
  /\ Len(images) <= MaxImages
  /\ \A i \in 1 .. Len(images) :
       /\ images[i].clean /\ images[i].size > 0
       /\ images[i].size <= MaxImageBytes
       /\ Total(Sizes(SubSeq(images, 1, i))) <= MaxMessageImageBytes
       /\ images[i].matches

\* The body of POST /api/messages: the id, the text and each image with its
\* type and name, a unit of text or name taking at most `width` bytes of JSON.
BodyLength(units, images, width) ==
  68 + width * units
     + MapThenSumSet(LAMBDA i : Base64Chars(images[i].size) + width * images[i].name + 62,
                     DOMAIN images)

RouteTakes(units, images, width) ==
  /\ BodyLength(units, images, width) <= MessageBodyLimit
  /\ SchemaAdmits(units, images)
  /\ InputImagesAdmit(images)

-----------------------------------------------------------------------------
(* The image bridge.  A request is the length of its JSON without images   *)
(* and the lengths of the data URLs it carries.                            *)

MaxBridgeJsonBytes == 32 * 1024 * 1024

\* The "images" member with k data URLs: its key, brackets, quotes and commas.
BridgeBody(base, urls) ==
  IF urls = <<>> THEN base ELSE base + 12 + 3 * Len(urls) - 1 + Total(urls)

RemainingSourceBytes(base, urls, prefix) ==
  IF Len(urls) >= 5 THEN 0
  ELSE BytesWithin(MaxBridgeJsonBytes - BridgeBody(base, Append(urls, prefix)))

BridgePayloadFits(base, urls) ==
  Len(urls) <= 5 /\ BridgeBody(base, urls) <= MaxBridgeJsonBytes

\* requestImage: the prompt and model must not be blank, the address must be a
\* bare http origin, and the answer a single clean PNG.
Origin(address) ==
  address.parses /\ address.http /\ ~address.query /\ ~address.credentials /\ address.path = ""

RequestImage(request, answer) ==
  IF \/ ~Origin(request.address) \/ request.blank
     \/ ~BridgePayloadFits(request.base, request.urls)
  THEN "refused"
  ELSE IF ~answer.reached THEN "unreachable"
  ELSE IF ~answer.ok THEN "rejected"
  ELSE IF \/ ~answer.json \/ answer.keys # 1 \/ ~answer.url
          \/ ~answer.clean \/ answer.type # "image/png" \/ ~answer.matches
  THEN "invalid"
  ELSE "image"
=============================================================================
