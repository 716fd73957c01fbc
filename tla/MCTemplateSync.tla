--------------------------- MODULE MCTemplateSync ---------------------------
(***************************************************************************)
(* Small instances of TemplateSync.                                        *)
(***************************************************************************)
EXTENDS TemplateSync

\* A file the template begins or ceases to own alone, or leaves to its instances.
Kept == {<<"merge", "replace">>, <<"replace", "merge">>, <<"merge", "ignore">>}

\* A file it takes back from them.
TakenBack == {<<"merge", "ignore">>, <<"ignore", "merge">>}

=============================================================================
