------------------------- MODULE ReproducibleBuild -------------------------
(***************************************************************************)
(* What dependency resolution promises, without registries, caches, files  *)
(* or crashes in the middle: a build takes one step.  Each package it uses *)
(* is pinned, to a version and the digest of its content, and a pin is     *)
(* kept until the manifest no longer admits its version.  A build that     *)
(* does not succeed pins nothing.  What is promised depends on how it is   *)
(* put together: who chooses a version may not ask what is admitted, and   *)
(* packages may be lost after their pins were compared.                    *)
(***************************************************************************)
EXTENDS Integers

CONSTANTS
  Names,      \* the packages
  Manifests,  \* the manifests: the versions each package may have
  Pins,       \* the pins, [version, digest]
  NoPin,      \* instead of a pin, for a package that has none
  Nothing     \* the content of a package that was lost

VARIABLES
  checked,    \* pins are compared with the manifest
  admitting,  \* a new pin is one that the manifest admits
  intact,     \* no package is lost
  manifest,
  pinned,     \* the pin of each package
  lost,       \* the pins were lost and the loss is not repaired yet
  output,     \* the packages in the last build
  status      \* "idle", "running", "ok" or "failed"

vars == <<checked, admitting, intact, manifest, pinned, lost, output, status>>

NoPins == [n \in Names |-> NoPin]

Wanted == {n \in Names : manifest[n] # {}}

\* The manifest admits the pin of n.
Valid(n) == pinned[n] # NoPin /\ (checked => pinned[n].version \in manifest[n])

Init ==
  /\ checked \in BOOLEAN
  /\ admitting \in BOOLEAN
  /\ intact \in BOOLEAN
  /\ manifest \in Manifests
  /\ pinned = NoPins
  /\ lost = FALSE
  /\ output = {}
  /\ status = "idle"

Edit ==
  /\ status # "running"
  /\ manifest' \in Manifests
  /\ UNCHANGED <<checked, admitting, intact, pinned, lost, output, status>>

Begin ==
  /\ status # "running"
  /\ status' = "running"
  /\ output' = {}
  /\ UNCHANGED <<checked, admitting, intact, manifest, pinned, lost>>

\* The build of the pins new: those that are valid and those that are not
\* wanted stay as they are, and the packages are what their pins say, but for
\* those that are gone.
Succeed(new, gone) ==
  /\ status = "running"
  /\ pinned' = new
  /\ lost => Wanted = {}
  /\ \A n \in Names : n \notin Wanted \/ Valid(n) => new[n] = pinned[n]
  /\ \A n \in Wanted \ {m \in Names : Valid(m)} :
       new[n] # NoPin /\ (admitting => new[n].version \in manifest[n])
  /\ intact => gone = {}
  /\ output' = {[name    |-> n,
                 version |-> new[n].version,
                 content |-> IF n \in gone THEN Nothing ELSE new[n].digest] : n \in Wanted}
  /\ status' = "ok"
  /\ UNCHANGED <<checked, admitting, intact, manifest, lost>>

Stop ==
  /\ status = "running"
  /\ status' = "failed"
  /\ UNCHANGED <<checked, admitting, intact, manifest, pinned, lost, output>>

\* The one way to lose pins is to fail while they are being saved.
Lose ==
  /\ status = "running"
  /\ status' = "failed"
  /\ lost' = TRUE
  /\ pinned' = NoPins
  /\ UNCHANGED <<checked, admitting, intact, manifest, output>>

Repair ==
  /\ lost
  /\ status # "running"
  /\ lost' = FALSE
  /\ UNCHANGED <<checked, admitting, intact, manifest, pinned, output, status>>

Next ==
  \/ Edit
  \/ Begin
  \/ \E new \in [Names -> Pins \cup {NoPin}], gone \in SUBSET Names : Succeed(new, gone)
  \/ Stop
  \/ Lose
  \/ Repair

Spec == Init /\ [][Next]_vars
=============================================================================
