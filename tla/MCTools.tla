------------------------------ MODULE MCTools ------------------------------
(***************************************************************************)
(* Small instances of what is done around a cook, on the artist's computer *)
(* and on the volume: Installation, CommandLine, FarmKill, Ledger, Smoke,  *)
(* Packages and Volume.  They share no state, so one run takes them side   *)
(* by side: a behaviour belongs to one of them, and the variables of the   *)
(* others stay as they begin.                                              *)
(***************************************************************************)
EXTENDS Installation, CommandLine, FarmKill, Ledger, Smoke, Packages, Volume, TLC

-----------------------------------------------------------------------------
(* Installation and CommandLine *)

McFirstEnv == {NoRoot, Copy, Checkout}

\* nothing, or one volume, where it is not looked for
McFirstAccounts == {[v \in {} |-> HomeRegion]}
  \cup {[v \in {w} |-> r] : w \in {CHOOSE w \in Volumes : TRUE}, r \in Regions \ {HomeRegion}}

-----------------------------------------------------------------------------
(* Packages: files below $JOB, below the place a link in $JOB leads to, and *)
(* outside; in the order of their farm paths                                *)

MCJob     == <<"p", "job">>
MCReal    == <<"mnt">>
MCProject == <<"workspace", "u", "x">>
JobA == <<"p", "job", "a">>
JobB == <<"p", "job", "t", "b">>
Mnt  == <<"mnt", "c">>
LibX == <<"lib", "x">>
LibY == <<"lib", "tex", "y">>
Top  == <<"r">>

MCCandidates == <<LibY, LibX, Top, JobA, Mnt, JobB>>
MCSize       == [f \in ToSet(MCCandidates) |-> IF f = JobB THEN 4 ELSE IF f \in {LibX, Mnt} THEN 2 ELSE 1]
MCWanted     == [n \in Uploads |-> IF n = "u1" THEN {LibX, LibY, Mnt} ELSE {LibX, Top, JobB}]
MCOutputs    == {MCProject \o <<"o">>, MCProject \o <<"q">>, MCProject \o <<"_ext", "lib", "o">>, <<"lib", "z">>}
MCOutputSize == [p \in MCOutputs |-> 2]

-----------------------------------------------------------------------------
VARIABLE part      \* which of them moves

Parts == {"installation", "commands", "kill", "ledger", "smoke", "packages", "volume"}

\* assets that carry no block; looked at where houdini.env names no root
Unsaid == {h \in Hdas : asset[h] = Unbaked}

ToolsInit ==
  /\ part \in Parts
  /\ InstallInit /\ (part # "installation" \/ Unsaid # {} => envLine = NoRoot)
                 /\ (part # "installation" => Unsaid = {})
  /\ CliInit /\ (part # "commands" => DOMAIN account = {} /\ ~template)
  /\ KillInit /\ (part # "kill" => \A p \in Pods : fleet[p].owner = Me /\ fleet[p].tagged
                                                   /\ ~fleet[p].sync /\ fleet[p].reports)
  /\ LedgerInit
  /\ SmokeInit /\ (part # "smoke" => result = "none" /\ alive = {} /\ \A f \in Items : files[f] = "none")
  /\ PackagesInit /\ VolumeInit

ToolsNext ==
  \/ /\ part = "installation" /\ InstallNext
     /\ UNCHANGED <<part, cliVars, killVars, ledgerVars, smokeVars, packagesVars, volumeVars>>
  \/ /\ part = "commands" /\ CliNext
     /\ UNCHANGED <<part, installVars, killVars, ledgerVars, smokeVars, packagesVars, volumeVars>>
  \/ /\ part = "kill" /\ KillNext
     /\ UNCHANGED <<part, installVars, cliVars, ledgerVars, smokeVars, packagesVars, volumeVars>>
  \/ /\ part = "ledger" /\ LedgerNext
     /\ UNCHANGED <<part, installVars, cliVars, killVars, smokeVars, packagesVars, volumeVars>>
  \/ /\ part = "smoke" /\ SmokeNext
     /\ UNCHANGED <<part, installVars, cliVars, killVars, ledgerVars, packagesVars, volumeVars>>
  \/ /\ part = "packages" /\ PackagesNext
     /\ UNCHANGED <<part, installVars, cliVars, killVars, ledgerVars, smokeVars, volumeVars>>
  \/ /\ part = "volume" /\ VolumeNext
     /\ UNCHANGED <<part, installVars, cliVars, killVars, ledgerVars, smokeVars, packagesVars>>

ToolsSpec ==
  ToolsInit /\ [][ToolsNext]_<<part, installVars, cliVars, killVars, ledgerVars, smokeVars, packagesVars, volumeVars>>

\* who runs the commands: the same model values stand for installers and shells, and
\* for digital assets and the commands on the volume
ToolsSymmetry == Permutations(Installers) \cup Permutations(Hdas)
=============================================================================
