----------------------------- MODULE ReleaseNames -----------------------------
(***************************************************************************)
(* The names an image is published under (dagger/src/release.ts).  Text is *)
(* a sequence of pieces: characters, " " for white space, and the words a  *)
(* reference is put together from.                                         *)
(***************************************************************************)
EXTENDS Integers, Sequences, SequencesExt

CONSTANT NoName         \* an error

Digits == {"0", "1", "2"}

TrimmedName(text) ==
  LET ink == {i \in 1 .. Len(text) : text[i] # " "}
  IN  IF ink = {} THEN <<>>
      ELSE SubSeq(text, CHOOSE i \in ink : \A j \in ink : i <= j,
                        CHOOSE i \in ink : \A j \in ink : j <= i)

\* 0|[1-9]\d*
IsNumber(text) ==
  /\ text # <<>> /\ ToSet(text) \subseteq Digits
  /\ text[1] = "0" => Len(text) = 1

\* Mistaken: the pattern is not anchored at its end.
IsVersionPrefix(text) ==
  \E i, j, k \in 1 .. Len(text) :
    /\ i < j /\ j < k /\ text[i] = "." /\ text[j] = "."
    /\ IsNumber(SubSeq(text, 1, i - 1)) /\ IsNumber(SubSeq(text, i + 1, j - 1))
    /\ IsNumber(SubSeq(text, j + 1, k))

\* Three numbers between two dots.
IsVersion(text) ==
  \E i, j \in 1 .. Len(text) :
    /\ i < j /\ text[i] = "." /\ text[j] = "."
    /\ IsNumber(SubSeq(text, 1, i - 1)) /\ IsNumber(SubSeq(text, i + 1, j - 1))
    /\ IsNumber(SubSeq(text, j + 1, Len(text)))

ParseVersion(value) == LET version == TrimmedName(value) IN IF IsVersion(version) THEN version ELSE NoName

\* [tag, version]; the version is the tag without its "v".
ParseStableReleaseTag(value) ==
  LET tag == TrimmedName(value)
  IN  IF tag # <<>> /\ tag[1] = "v" /\ IsVersion(Tail(tag)) THEN [tag |-> tag, version |-> Tail(tag)]
      ELSE NoName

ReferencesForVersion(value, registry) ==
  LET version == ParseVersion(value)
      prefix == IF registry # <<>> /\ Last(registry) = "/" THEN Front(registry) ELSE registry
      Named(tag) == prefix \o <<"/lamplit:">> \o tag
  IN  IF version = NoName THEN NoName
      ELSE [core |-> Named(version), full |-> Named(version \o <<"-full">>),
            rollingCore |-> Named(<<"latest">>), rollingFull |-> Named(<<"full">>)]

PublishReferences(tag, registry) ==
  LET release == ParseStableReleaseTag(tag)
  IN  IF release = NoName THEN NoName ELSE ReferencesForVersion(release.version, registry)
=============================================================================
