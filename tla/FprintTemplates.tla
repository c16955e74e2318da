--------------------------- MODULE FprintTemplates ---------------------------
(***************************************************************************)
(* Fingerprint templates and the driver functions on them.  A template is  *)
(* the sequence of the fingers whose features it holds: a capture holds    *)
(* one, a merged template three.  The empty sequence stands for a NULL     *)
(* template, and for the data of a file of which not all was written.      *)
(*                                                                         *)
(* The feature comparison itself is in the vendor libraries, which are not *)
(* in the repository: between features of fingers it is taken to recognise *)
(* a finger without fail, and nothing is assumed of it otherwise.          *)
(***************************************************************************)
EXTENDS Naturals, Sequences, FiniteSets

NULL == << >>

\* The feature of no finger: what is in the arat driver's feature buffer when
\* it has not been written.
Noise == "noise"

\* Result codes of the driver interface.
OK        == "FPRINT_RESULT_OK"
FAIL      == "FPRINT_RESULT_FAIL"
UNSUPPORT == "FPRINT_RESULT_UNSUPPORT"
RETRY     == "FPRINT_RESULT_ENROLL_RETRY"
PASS      == "FPRINT_RESULT_ENROLL_PASS"
COMPLETE  == "FPRINT_RESULT_ENROLL_COMPLETE"
ResultCodes == {OK, FAIL, UNSUPPORT, RETRY, PASS, COMPLETE}

FingersOf(template) == {template[n] : n \in DOMAIN template}

\* All of the template is features of fingers.
Readable(template) == template # NULL /\ Noise \notin FingersOf(template)

\* kiran_fprint_template_merge of the arat driver: the features in a row.
TemplateMerge(a, b, c) == a \o b \o c

\* The comparison of two readable templates: the first feature of the first
\* template against every feature of the second.
TemplateMatch(a, b) == IF a[1] \in FingersOf(b) THEN OK ELSE FAIL

\* What kiran_fprint_template_match may return.  The arat driver looks neither at
\* the templates nor at the library's result: when there is no feature to compare
\* or the library refuses, it returns a variable that was never set.  A driver
\* that enrols inside the device ("internal") has no comparison of templates.
DriverMatch(internal, a, b) ==
  CASE internal                                 -> {UNSUPPORT}
    [] ~internal /\ Readable(a) /\ Readable(b) -> {TemplateMatch(a, b)}
    [] OTHER                                    -> ResultCodes

\* What acquiring a finger can give: a result and a template.  A capture that
\* is halted before its first poll, or after a poor image, leaves the arat
\* driver's loop with ret still FPRINT_RESULT_OK and no feature extracted.
DriverAcquire(internal, fingers, halted) ==
  IF internal
    THEN {<<COMPLETE, <<f>> >> : f \in fingers}
           \cup {<<r, NULL>> : r \in {PASS, RETRY, FAIL}}
    ELSE {<<OK, <<f>> >> : f \in IF halted THEN fingers \cup {Noise} ELSE fingers}
           \cup {<<FAIL, NULL>>}
==============================================================================
