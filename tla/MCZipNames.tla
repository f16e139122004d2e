------------------------------ MODULE MCZipNames ------------------------------
(***************************************************************************)
(* Inputs whose paths lie inside each other, beside each other and in      *)
(* META-INF, the manifest and a path below it among them.                  *)
(***************************************************************************)
EXTENDS ZipNames

Of(paths) == {[dest |-> p, kind |-> k] : p \in paths, k \in Kinds}

MCComponents == {"a", "b", "c", "x", "y", "META-INF", "MANIFEST.MF"}

MCInputs == Of({<<"a">>, <<"a", "b">>, <<"a", "b", "c">>,
                <<"META-INF">>, <<"META-INF", "x">>, ManifestFile, Append(ManifestFile, "y")})
=============================================================================
