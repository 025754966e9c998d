------------------------------ MODULE MCFiles ------------------------------
(***************************************************************************)
(* Small instances of the files of a cook: Preflight (which are sent, and  *)
(* what the artist agrees to) and Delivery (which came home).  They share  *)
(* no state, so one run takes them side by side: a behaviour belongs to    *)
(* one of them, and the variables of the other stay as they begin.         *)
(***************************************************************************)
EXTENDS Preflight, Delivery

CONSTANTS t1, t2

-----------------------------------------------------------------------------
\* $JOB holds the scene, textures (with a backup directory), a cache and a render
\* directory that a parameter names as output; outside of $JOB lies a directory too
\* large to list, which $OCIO stands for, and into which a parameter points
MCHip   == <<"job", "s.hip">>
MCOcio  == <<"lib", "ocio">>
Lut     == <<"lib", "lut">>
TexA    == <<"job", "tex", "a">>
TexB    == <<"job", "tex", "b">>
TexOld  == <<"job", "tex", "backup", "old">>
Layer   == <<"job", "render", "usd">>
Frame   == <<"job", "render", "f1">>

MCFiles   == {MCHip, MCOcio, Lut, TexA, TexB, TexOld, Layer, Frame}
MCTooMany == {<<"lib">>}
MCBackups == {}
MCRoots   == {<<"job">>}

Reading(shape, at) == [shape |-> shape, at |-> at]
Ref(node, output, value, text) ==
  [node |-> node, output |-> output, ours |-> node = "upload", value |-> value, text |-> text]

Nothing == Reading("internal", <<>>)

\* the textures by a frame sequence, an FBX-like address whose string is the file,
\* a file by name, the output directory, our own node, a node off the branch
MCRefs ==
  {Ref("sop", FALSE, Reading("frame", TexA), Nothing),
   Ref("inside", FALSE, Nothing, Reading("relative", <<"render", "usd">>)),
   Ref("rop", TRUE, Reading("plain", <<"job", "render">>), Nothing),
   Ref("upload", FALSE, Reading("plain", <<"job">>), Nothing),
   Ref("other", FALSE, Reading("plain", MCOcio), Nothing),
   Ref("none", FALSE, Reading("varies", {TexB}), Nothing)}

MCNodes    == {"rop", "lop", "sop", "inside", "other", "upload"}
Reads(f)   == [n \in MCNodes |-> IF n \in DOMAIN f THEN f[n] ELSE {}]
MCFetched  == {"rop"}
MCInputs   == Reads([rop |-> {"lop"}])
MCNamed    == Reads([lop |-> {"sop"}])
MCChildren == Reads([sop |-> {"inside"}])
MCComposed == [r \in MCFetched |-> {Layer}]
MCLayered  == [r \in MCFetched |-> {TexB}]

\* frames three seconds apart; files by hand that are older, between, or newer
MCRenderedAt == <<3, 6>>

-----------------------------------------------------------------------------
VARIABLE part      \* which of the two moves

filesVars == <<part, preflightVars, deliveryVars>>

FilesInit == part \in {"preflight", "delivery"} /\ PreflightInit /\ DeliveryInit

FilesNext ==
  \/ part = "preflight" /\ PreflightNext /\ UNCHANGED <<part, deliveryVars>>
  \/ part = "delivery" /\ DeliveryNext /\ UNCHANGED <<part, preflightVars>>

\* the fairness of the transfers; what is checked of Preflight needs none
FilesSpec ==
  /\ FilesInit /\ [][FilesNext]_filesVars
  /\ \A t \in Transfers : WF_deliveryVars(part = "delivery" /\ Step(t) /\ UNCHANGED <<part, preflightVars>>)
=============================================================================
