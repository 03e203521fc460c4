----------------------------- MODULE Admission -----------------------------
(***************************************************************************)
(* What must hold before a prompt is sent: the installed SDK and its       *)
(* bundled CLI are the pinned ones (compatibility.py), and the last user   *)
(* message makes a bounded turn input (turn_input.py).  Both are pure:     *)
(* each is an operator that mirrors the code's order of checks.            *)
(***************************************************************************)
EXTENDS Integers, SequencesExt

CONSTANTS
  MaxText,          \* MAX_TURN_TEXT
  MaxImages,        \* MAX_IMAGES_PER_TURN
  MaxImageBytes,    \* MAX_IMAGE_BYTES
  MaxTotalBytes     \* MAX_TOTAL_IMAGE_BYTES

ASSUME AdmissionAssumption ==
  {MaxText, MaxImages, MaxImageBytes, MaxTotalBytes} \subseteq Nat

VARIABLES
  install,      \* what the metadata of the installed SDK says
  content       \* the blocks of the last user message

admissionVars == <<install, content>>

(* Versions are triples; a version that does not parse is Malformed.       *)
Malformed3 == <<-1, -1, -1>>
(* Mutant: versions are compared part by part. *)
BelowEachPart(v, w) == \A i \in 1 .. 3 : v[i] <= w[i]

Below(v, w) ==
  \E i \in 1 .. 3 : v[i] < w[i] /\ \A j \in 1 .. i - 1 : v[j] = w[j]

SDK_MIN_VERSION == <<0, 2, 151>>
SDK_MAX_VERSION == <<0, 2, 152>>
FABLE_51_MIN_CLI_VERSION == <<2, 1, 258>>

SDKInRange(v) ==
  v # Malformed3 /\ ~Below(v, SDK_MIN_VERSION) /\ Below(v, SDK_MAX_VERSION)

(* _parse_bundled_cli_version(): an optional leading docstring and one     *)
(* literal assignment, nothing else.                                       *)
BundledCli(i) ==
  IF i.statements \in {<<"assign">>, <<"doc", "assign">>}
  THEN i.cli ELSE Malformed3

(* _sdk_metadata() *)
SDKMetadata(i) ==
  IF ~i.installed THEN "missing" ELSE
  IF i.sdk = Malformed3 \/ BundledCli(i) = Malformed3 THEN "malformed" ELSE
  IF ~SDKInRange(i.sdk) THEN "unsupported" ELSE
  "compatible"

(* check_model_compatibility() for the direct model: it reads the report   *)
(* again field by field.                                                   *)
ModelCompatible(i) ==
  /\ SDKMetadata(i) = "compatible"
  /\ SDKInRange(i.sdk)
  /\ BundledCli(i) = FABLE_51_MIN_CLI_VERSION

Versions ==
  {Malformed3, <<0, 2, 150>>, <<0, 2, 151>>, <<0, 2, 152>>, <<0, 3, 0>>,
   <<0, 1, 200>>, <<1, 0, 151>>, <<2, 1, 257>>, <<2, 1, 258>>, <<2, 1, 259>>,
   <<2, 0, 300>>}
Installs ==
  [installed : BOOLEAN, sdk : Versions, cli : Versions,
   statements : {<<>>, <<"assign">>, <<"doc", "assign">>, <<"assign", "doc">>,
                 <<"doc", "doc">>, <<"doc", "assign", "assign">>}]

-----------------------------------------------------------------------------
(* Blocks of a user message: text of a length (after strip()), images as   *)
(* base64 data of a decoded size or as a URL, and what is neither.         *)
InputBlocks ==
  [kind : {"text"}, size : 0 .. MaxText + 1]
  \cup [kind : {"base64"}, size : 0 .. MaxImageBytes + 1]
  \cup [kind : {"url", "invalid", "other"}, size : {0}]

(* Mutant: a text that does not fit is dropped instead of cut. *)
TextStepDrops(acc, b) ==
  IF b.kind # "text" \/ b.size = 0 \/ acc.used + b.size > MaxText THEN acc
  ELSE [parts |-> Append(acc.parts, b.size), used |-> acc.used + b.size]

(* _bounded_text(): whole texts until the limit, the last one cut.         *)
TextStep(acc, b) ==
  LET left == MaxText - acc.used
      part == IF b.size < left THEN b.size ELSE left
  IN  IF b.kind # "text" \/ b.size = 0 \/ left <= 0 THEN acc
      ELSE [parts |-> Append(acc.parts, part), used |-> acc.used + part]
BoundedText(blocks) ==
  FoldLeft(TextStep, [parts |-> <<>>, used |-> 0], blocks)

(* _image_source() *)
ImageError(b) ==
  IF b.kind = "invalid" \/ (b.kind = "base64" /\ b.size = 0)
  THEN "invalid" ELSE
  IF b.kind = "base64" /\ b.size > MaxImageBytes THEN "too_large" ELSE
  "none"

(* Mutant: the total is checked before the image is added to it. *)
ImageStepLate(acc, b) ==
  IF acc.error # "none" \/ b.kind \in {"text", "other"} THEN acc ELSE
  IF ImageError(b) # "none" THEN [acc EXCEPT !.error = ImageError(b)] ELSE
  IF acc.images >= MaxImages THEN [acc EXCEPT !.error = "too_many"] ELSE
  IF acc.total > MaxTotalBytes THEN [acc EXCEPT !.error = "total"] ELSE
  [acc EXCEPT !.images = @ + 1, !.total = @ + b.size]

(* One block of build_sdk_turn_input(): an error raises, so later blocks   *)
(* are not looked at.                                                      *)
ImageStep(acc, b) ==
  IF acc.error # "none" \/ b.kind \in {"text", "other"} THEN acc ELSE
  IF ImageError(b) # "none" THEN [acc EXCEPT !.error = ImageError(b)] ELSE
  IF acc.images + 1 > MaxImages THEN [acc EXCEPT !.error = "too_many"] ELSE
  IF acc.total + b.size > MaxTotalBytes
  THEN [acc EXCEPT !.error = "total"] ELSE
  [acc EXCEPT !.images = @ + 1, !.total = @ + b.size]

(* build_sdk_turn_input() for a message whose content is a list of blocks: *)
(* an error, plain text, images with text (a default one when there is     *)
(* none), or nothing.                                                      *)
BuildTurnInput(blocks) ==
  LET images == FoldLeft(ImageStep,
                         [images |-> 0, total |-> 0, error |-> "none"], blocks)
      text == BoundedText(blocks)
  IN  IF images.error # "none" THEN images.error ELSE
      IF images.images > 0 THEN "rich" ELSE
      IF text.parts # <<>> THEN "text" ELSE
      "nothing"

-----------------------------------------------------------------------------
(* A model is admitted exactly for the one pinned SDK and bundled CLI, and *)
(* only when the version file is one of the two inert shapes.              *)
AdmittedIsPinned ==
  ModelCompatible(install) <=>
    /\ install.installed /\ install.sdk = SDK_MIN_VERSION
    /\ install.cli = FABLE_51_MIN_CLI_VERSION
    /\ Len(install.statements) =
         1 + Cardinality({i \in DOMAIN install.statements :
                            install.statements[i] = "doc"})
    /\ Last(install.statements) = "assign" /\ Len(install.statements) <= 2

(* The sum of the sizes of the blocks of these kinds. *)
Sizes(kinds) ==
  FoldLeft(LAMBDA n, b : n + (IF b.kind \in kinds THEN b.size ELSE 0),
           0, content)
ImagesIn == {i \in DOMAIN content :
               content[i].kind \in {"base64", "url", "invalid"}}

(* The lengths of the texts that are not empty. *)
TextSizes(blocks) ==
  FoldLeft(LAMBDA t, b : IF b.kind = "text" /\ b.size > 0
                         THEN Append(t, b.size) ELSE t, <<>>, blocks)

(* The prompt text loses nothing but what is over the limit: its length is *)
(* the smaller of the limit and of all text, every text but the last kept  *)
(* one is whole, and the line breaks between them at most double it.       *)
TextIsCutOnce ==
  LET t == BoundedText(content)
      texts == TextSizes(content)
  IN  /\ t.used = IF Sizes({"text"}) < MaxText THEN Sizes({"text"})
                                                ELSE MaxText
      /\ \A i \in 1 .. Len(t.parts) - 1 : t.parts[i] = texts[i]
      /\ t.parts # <<>> => t.used + Len(t.parts) - 1 < 2 * MaxText

(* A turn input is built exactly when every image is valid by itself and   *)
(* together they keep the count and the size limits: the running checks    *)
(* agree with the sums.                                                    *)
ImagesWithinLimits ==
  BuildTurnInput(content) \in {"rich", "text", "nothing"} <=>
    /\ \A i \in DOMAIN content : ImageError(content[i]) = "none"
    /\ Cardinality(ImagesIn) <= MaxImages
    /\ Sizes({"base64"}) <= MaxTotalBytes
=============================================================================
