----------------------------- MODULE MCPlatform -----------------------------
(***************************************************************************)
(* Small instances, for TLC, of three components that share no state: the  *)
(* library of sources, the authoring of quizzes and the accounts.  A       *)
(* behaviour works one of them ("focus"), so one run explores the sum of   *)
(* their states and not the product.  Components take the same model       *)
(* values, so few permutations serve all of them.                          *)
(***************************************************************************)
EXTENDS SourceLibrary, QuizAuthoring, Accounts, TLC

CONSTANTS s1, s2, free, paid

VARIABLE focus

(* Either plan is the narrower one in something. *)
SizeOf == (s1 :> 1) @@ (s2 :> 2)
SourcesIn == (free :> 1) @@ (paid :> 2)
BytesIn == (free :> 2) @@ (paid :> 3)
BytesInFile == (free :> 2) @@ (paid :> 1)
CollectionsIn == (free :> 0) @@ (paid :> 1)

Interchangeable ==
  Permutations(Quiz) \cup Permutations(Question)

platformVars == <<focus, libVars, authoringVars, accountVars>>

PlatformTypeOK ==
  /\ LibraryTypeOK /\ AuthoringTypeOK /\ AccountsTypeOK
  /\ focus \in {"library", "authoring", "accounts"}

PlatformInit ==
  /\ LibraryInit /\ AuthoringInit /\ AccountsInit
  /\ focus \in {"library", "authoring", "accounts"}

PlatformNext ==
  \/ /\ focus = "library" /\ LibraryNext
     /\ UNCHANGED <<focus, authoringVars, accountVars>>
  \/ /\ focus = "authoring" /\ AuthoringNext
     /\ UNCHANGED <<focus, libVars, accountVars>>
  \/ /\ focus = "accounts" /\ AccountsNext
     /\ UNCHANGED <<focus, libVars, authoringVars>>

PlatformSpec == PlatformInit /\ [][PlatformNext]_platformVars
=============================================================================
