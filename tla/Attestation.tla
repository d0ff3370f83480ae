---------------------------- MODULE Attestation ----------------------------
(***************************************************************************)
(* Boot attestation, src/dispatcher/attestation.py.  The files to be run   *)
(* are a sequence of [name, digest], in the order they are hashed: the     *)
(* package, the routes, the extra files.  A name is a path's last part, so *)
(* two files may share one.                                                *)
(***************************************************************************)
EXTENDS Integers, Sequences
LOCAL INSTANCE FiniteSetsExt

Named(files, n) == {k \in DOMAIN files : files[k].name = n}

\* build_manifest: a dict, in which a later file of a name replaces an earlier.
BuildManifest(files) ==
  [n \in {files[k].name : k \in DOMAIN files} |-> files[Max(Named(files, n))].digest]

\* verify_manifest: the names that deviate, absent from disk, absent from the
\* manifest, or of another hash.
VerifyManifest(manifest, files) ==
  LET current    == BuildManifest(files)
      Matches(n) == n \in DOMAIN manifest /\ n \in DOMAIN current /\ manifest[n] = current[n]
  IN  IF DOMAIN manifest = {} THEN {"manifest absent"}
      ELSE {n \in DOMAIN manifest \cup DOMAIN current : ~Matches(n)}
=============================================================================
