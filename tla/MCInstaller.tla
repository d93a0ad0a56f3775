---------------------------- MODULE MCInstaller ----------------------------
(* Small instances of Installer for TLC.  Agents and paths are alike.       *)
EXTENDS InstallerInvariants, TLC

Symmetry == Permutations(Agent) \union Permutations(Binary)

\* An edit and a fault in one behaviour leave two commands of the three.
FourEvents == commands + edits + faults <= 4
=============================================================================
