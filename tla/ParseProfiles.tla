----------------------------- MODULE ParseProfiles -----------------------------
(***************************************************************************)
(* The text-layer probe of a PDF (parsers/pdf_probe.py) and the choice of the *)
(* pipeline it drives (parsers/docling_parser.py), with what the result       *)
(* reports of the OCR.                                                      *)
(*                                                                         *)
(* A document is its kind, its pages, and for a PDF how many of them carry a  *)
(* text layer.  Each state is one parse request of one document.              *)
(***************************************************************************)
EXTENDS Integers

CONSTANT ProbePages    \* pages of a document, at most
ASSUME ParseProfilesAssumption == ProbePages \in Nat \ {0}

VARIABLE probing

Documents ==
  {d \in [mime : {"pdf", "image", "office"}, readable : BOOLEAN,
          pages : 1 .. ProbePages, digital : 0 .. ProbePages] :
     d.digital <= d.pages /\ (d.mime # "pdf" => (~d.readable /\ d.digital = 0))}

ProfileRequests == {"auto", "standard", "native", "vlm"}
NoProbe  == [request |-> "none"]

ProbeInit == probing = NoProbe
ProbeNext ==
  /\ probing = NoProbe
  /\ probing' \in [request : ProfileRequests, of : Documents]

-----------------------------------------------------------------------------
DigitalRatio == <<9, 10>>

IsDigital(d) == d.digital * DigitalRatio[2] >= DigitalRatio[1] * d.pages

\* probe_pdf_bytes; "unknown" for None.
ProbeKind(d) ==
  IF ~d.readable THEN "unknown"
  ELSE IF d.digital = 0 THEN "scanned"
  ELSE IF IsDigital(d) THEN "digital" ELSE "mixed"

\* _auto_profile and _resolve_profile.
AutoProfile(d) ==
  IF d.mime = "pdf" /\ ProbeKind(d) = "digital" THEN "native" ELSE "standard"
ResolveProfile(request, d) == IF request = "auto" THEN AutoProfile(d) ELSE request

\* Whether the pipeline that _build_format_options registers for the format
\* under the profile has the selective OCR stage.
HasOcrStage(profile, d) ==
  \/ profile = "standard" /\ d.mime # "office"
  \/ profile = "native" /\ d.mime = "image"

\* Mutant: the native profile is taken to read no image either.
OcrPagesByProfile(profile, d) ==
  IF profile \in {"vlm", "native"} THEN 0
  ELSE IF d.mime = "image" THEN d.pages
  ELSE IF d.mime = "office" THEN 0
  ELSE IF ProbeKind(d) = "unknown" THEN -1 ELSE d.pages - d.digital

\* metadata["ocr_pages"] of _result_to_parsed; -1 for None.
OcrPages(profile, d) ==
  IF profile = "vlm" THEN 0
  ELSE IF d.mime = "image" THEN d.pages
  ELSE IF d.mime = "office" \/ profile = "native" THEN 0
  ELSE IF ProbeKind(d) = "unknown" THEN -1 ELSE d.pages - d.digital

-----------------------------------------------------------------------------
(* Properties.                                                              *)

\* auto leaves at most a tenth of the pages of a PDF that the probe could read
\* to the text layer they do not have.
AutoReadsPages ==
  (probing.request = "auto" /\ probing.of.readable) =>
    LET d == probing.of
        ocr == OcrPages(ResolveProfile("auto", d), d)
    IN 10 * (d.pages - d.digital - ocr) <= d.pages

\* Pages are reported as recognised exactly when the pipeline that ran has an
\* OCR stage and there was a page for it; they are unknown only when the probe
\* could not read the file.
OcrReported ==
  probing # NoProbe =>
    LET d == probing.of
        profile == ResolveProfile(probing.request, d)
        ocr == OcrPages(profile, d)
    IN /\ ocr <= d.pages
       /\ ocr > 0 => HasOcrStage(profile, d)
       /\ ocr = -1 => (HasOcrStage(profile, d) /\ ~d.readable)
       /\ (ocr = 0 /\ HasOcrStage(profile, d)) => d.digital = d.pages

\* What is chosen for a PDF reads it, and what is reported of it is true.
ProfilesSound == AutoReadsPages /\ OcrReported

=============================================================================
