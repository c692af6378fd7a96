------------------------------ MODULE Evidence ------------------------------
(***************************************************************************)
(* Verification evidence: scripts/verify_evidence.sh runs the checks and   *)
(* leaves a directory of files that vouch for each other, attestsign signs *)
(* the attestation, and ValidateSummaryArtifact accepts or refuses the     *)
(* directory.  Runs overlap, each in a directory of its own (the script    *)
(* looks for a free name before it makes the directory, so two runs that   *)
(* start in the same second may share one; that is left out); when a run   *)
(* is over its files may be removed, mixed up with those of another run,   *)
(* or corrected by hand.  A directory is known by one name: the validator  *)
(* compares the path it is given with run_dir as text.                     *)
(*                                                                         *)
(* A digest is the content it is taken of, and a signature the key and the *)
(* content it was made with.  The logs of the checks and the fields of the *)
(* summary that only have to be there are left out.                        *)
(***************************************************************************)
EXTENDS Integers, Sequences, TLC

CONSTANTS
    Runs,
    Hosts,          \* <<environment of the runs, that of a later validation, bound on the
                    \* files removed, mixed up or corrected>>
    DevID, DevKey,  \* "dev-default" and the key derived from the built-in seed
    Unreadable,     \* a key file that is not there, a key command that fails
    Empty,          \* a file without content
    None

Names == {"summary", "log", "attestation", "sig", "index", "manifest"}

VARIABLES
    host,           \* the environment of the runs, and the bound
    verifier,       \* that of whoever validates a directory later
    pc,             \* the next step of each run
    files,          \* by directory and name; a run and its directory have one name
    exits,          \* exit statuses of the two checks
    latest,         \* the file LATEST
    signed,         \* the files as attestsign left them
    mishaps         \* directories touched after the run, in order

vars == <<host, verifier, pc, files, exits, latest, signed, mishaps>>

-----------------------------------------------------------------------------
(* Keys.  An environment has a source for a ring of keys by id and one for   *)
(* a single key, whose id is that of the environment.  Each may name a file, *)
(* a command and a variable, and yields a text: a ring or one key.           *)

\* What attestkeygen makes of a key
renderKeyMaterial(id, key, ring) == IF ring THEN [ring |-> id :> key] ELSE [key |-> key]

NoSource == [file |-> None, command |-> None, value |-> None]

\* It leaves files, private and public, for the ring or for the single key ...
writeSecretFiles(id, key, ring) ==
    LET file == [NoSource EXCEPT !.file = renderKeyMaterial(id, key, ring)]
        keys == IF ring THEN [ring |-> file, single |-> NoSource]
                        ELSE [ring |-> NoSource, single |-> file]
    IN [private |-> keys, public |-> keys]

\* ... or prints assignments, whose variables are that of the single private key and that of
\* the public ring, whatever the form of the text.
renderAssignments(id, key, ring) ==
    LET value == [NoSource EXCEPT !.value = renderKeyMaterial(id, key, ring)]
    IN [private |-> [ring |-> NoSource, single |-> value],
        public  |-> [ring |-> value, single |-> NoSource]]

\* The file comes before the command, and the command before the variable; an empty text is
\* none.
resolveValueSource(source) ==
    LET text == IF source.file # None THEN source.file
                ELSE IF source.command # None THEN source.command ELSE source.value
    IN IF text = Empty THEN None ELSE text

isRing(text) == "ring" \in DOMAIN text

\* A text that has the form of a ring is no key.
parseKey(text) == IF isRing(text) THEN None ELSE text.key

\* The ring comes first, and must be one; the built-in key serves only where keys are not
\* enforced.  A source that cannot be read is an error.
resolveKey(keys, env, id) ==
    LET ring   == resolveValueSource(keys.ring)
        single == resolveValueSource(keys.single)
    IN CASE ring = Unreadable -> None
         [] ring \notin {None, Unreadable} ->
                IF isRing(ring) /\ id \in DOMAIN ring.ring THEN ring.ring[id] ELSE None
         [] ring = None /\ single = Unreadable -> None
         [] ring = None /\ single = None ->
                IF ~env.enforce /\ id = DevID THEN DevKey ELSE None
         [] OTHER -> IF env.id = id THEN parseKey(single) ELSE None

resolveEd25519PublicKey(env, id) == resolveKey(env.public, env, id)

\* Enforcing hosts take no private key from a variable unless told so.
resolveEd25519PrivateKey(env, id) ==
    LET inline == {env.private.ring.value, env.private.single.value} # {None}
    IN IF env.enforce /\ inline /\ ~env.allowInline THEN None
       ELSE resolveKey(env.private, env, id)

-----------------------------------------------------------------------------
(* Validation.                                                               *)

failureLabel(proto, verify) ==
    CASE proto # 0 /\ verify # 0 -> "both"
      [] proto # 0 /\ verify = 0 -> "proto_check"
      [] proto = 0 /\ verify # 0 -> "make_verify"
      [] OTHER                   -> None

\* validateSummarySchema2: the verdict follows from the statuses.
ValidateSummaryJSON(s) ==
    /\ s # None
    /\ s.overall = IF s.proto = 0 /\ s.verify = 0 THEN "pass" ELSE "fail"
    /\ s.failed = failureLabel(s.proto, s.verify)

\* A line of manifest.sha256
Line(d, name) == <<d, name, files[d][name]>>

\* Faulty variant: the attestation is taken for one of the summary whatever it says.
vouchesLoosely(att, s) == att.dir = s.dir

\* The attestation names the directory and the digest of the summary.
vouches(att, s) == att.dir = s.dir /\ att.summary = s

verifyAttestationSignature(sig, att, key) == key # None /\ sig = [key |-> key, over |-> att]

\* ValidateSummaryArtifact(d/summary.json, "strict") by whoever has the environment env
ValidateSummaryArtifact(d, env) ==
    LET f == files[d] IN
    /\ ValidateSummaryJSON(f.summary)
    /\ f.summary.dir = d
    /\ f.log # None /\ f.summary.log = f.log
    /\ f.index # None /\ f.manifest # None
    /\ {"log", "attestation", "sig"} \subseteq f.index
    /\ Line(d, "log") \in f.manifest
    /\ {f.attestation, f.sig} \cap {None, Empty} = {}
    /\ verifyAttestationSignature(f.sig, f.attestation,
                                  resolveEd25519PublicKey(env, f.attestation.id))
    /\ vouches(f.attestation, f.summary)
    /\ {Line(d, "attestation"), Line(d, "sig")} \subseteq f.manifest

-----------------------------------------------------------------------------
(* A run of the script.                                                      *)

At(r, step) == pc[r] = step
Goto(r, step) == pc' = [pc EXCEPT ![r] = step]
Write(r, name, content) == files' = [files EXCEPT ![r] = [@ EXCEPT ![name] = content]]

\* make proto-check and make verify
Check(r, proto, verify) ==
    /\ At(r, "check")
    /\ exits' = [exits EXCEPT ![r] = [proto |-> proto, verify |-> verify]]
    /\ Goto(r, "summary")
    /\ UNCHANGED <<host, verifier, files, latest, signed, mishaps>>

\* summary.json, with a placeholder for the digest of the validation log, three files that
\* are filled later, and a first index of the four
WriteSummary(r) ==
    LET e == exits[r]
        summary == [dir |-> r, proto |-> e.proto, verify |-> e.verify,
                    overall |-> IF e.proto = 0 /\ e.verify = 0 THEN "pass" ELSE "fail",
                    failed |-> failureLabel(e.proto, e.verify), log |-> None]
    IN
    /\ At(r, "summary")
    /\ files' = [files EXCEPT ![r] =
                    [summary |-> summary, log |-> Empty, attestation |-> Empty, sig |-> Empty,
                     index |-> {"summary", "log", "attestation", "sig"}, manifest |-> None]]
    /\ Goto(r, "log")
    /\ UNCHANGED <<host, verifier, exits, latest, signed, mishaps>>

\* The validation of the summary in json mode, and its log
WriteLog(r) ==
    /\ At(r, "log")
    /\ IF ValidateSummaryJSON(files[r].summary)
       THEN Write(r, "log", "passed") /\ Goto(r, "digest")
       ELSE Write(r, "log", "failed") /\ Goto(r, "stopped")
    /\ UNCHANGED <<host, verifier, exits, latest, signed, mishaps>>

\* The digest of that log takes the place of the placeholder.
FillDigest(r) ==
    /\ At(r, "digest")
    /\ Write(r, "summary", [files[r].summary EXCEPT !.log = files[r].log])
    /\ Goto(r, "attest")
    /\ UNCHANGED <<host, verifier, exits, latest, signed, mishaps>>

\* Faulty variant: the digest of the summary is that from before the log's was filled in.
AttestEarly(r) ==
    /\ At(r, "attest")
    /\ Write(r, "attestation",
             [dir |-> r, id |-> host.id, summary |-> [files[r].summary EXCEPT !.log = None]])
    /\ Goto(r, "sign")
    /\ UNCHANGED <<host, verifier, exits, latest, signed, mishaps>>

Attest(r) ==
    /\ At(r, "attest")
    /\ Write(r, "attestation", [dir |-> r, id |-> host.id, summary |-> files[r].summary])
    /\ Goto(r, "sign")
    /\ UNCHANGED <<host, verifier, exits, latest, signed, mishaps>>

\* attestsign; the script stops if it has no key
Sign(r) ==
    LET key == resolveEd25519PrivateKey(host, host.id)
        sig == [key |-> key, over |-> files[r].attestation]
    IN /\ At(r, "sign")
       /\ IF key = None
          THEN Goto(r, "stopped") /\ UNCHANGED <<files, signed>>
          ELSE /\ Write(r, "sig", sig)
               /\ signed' = [signed EXCEPT ![r] = [files[r] EXCEPT !.sig = sig]]
               /\ Goto(r, "index")
       /\ UNCHANGED <<host, verifier, exits, latest, mishaps>>

WriteIndex(r) ==
    /\ At(r, "index")
    /\ Write(r, "index", {n \in Names : files[r][n] # None})
    /\ Goto(r, "manifest")
    /\ UNCHANGED <<host, verifier, exits, latest, signed, mishaps>>

WriteManifest(r) ==
    /\ At(r, "manifest")
    /\ Write(r, "manifest", {Line(r, n) : n \in Names \ {"manifest"}})
    /\ Goto(r, "validate")
    /\ UNCHANGED <<host, verifier, exits, latest, signed, mishaps>>

\* The strict validation by the run itself, and LATEST
Validate(r) ==
    /\ At(r, "validate")
    /\ IF ValidateSummaryArtifact(r, host)
       THEN Goto(r, "done") /\ latest' = r
       ELSE Goto(r, "stopped") /\ UNCHANGED latest
    /\ UNCHANGED <<host, verifier, files, exits, signed, mishaps>>

\* The script is interrupted, and leaves what it has written so far.
Interrupt(r) ==
    /\ pc[r] \notin {"done", "stopped"}
    /\ Goto(r, "stopped")
    /\ UNCHANGED <<host, verifier, files, exits, latest, signed, mishaps>>

-----------------------------------------------------------------------------
(* What happens to the files when the run is over.                           *)

Mishap(r) ==
    /\ pc[r] \in {"done", "stopped"}
    /\ Len(mishaps) < host.mishaps
    /\ mishaps' = Append(mishaps, r)
    /\ UNCHANGED <<host, verifier, pc, exits, latest, signed>>

Remove(r, name) == Mishap(r) /\ Write(r, name, None)

Replace(r, name, other) == r # other /\ Mishap(r) /\ Write(r, name, files[other][name])

Correct(r) ==
    /\ files[r].summary # None
    /\ Mishap(r)
    /\ \E s \in {[files[r].summary EXCEPT !.overall = "pass"],
                 [files[r].summary EXCEPT !.overall = "pass", !.proto = 0, !.verify = 0,
                                          !.failed = None]} : Write(r, "summary", s)

Init ==
    /\ \E h \in Hosts : host = h[1] @@ [mishaps |-> h[3]] /\ verifier = h[2]
    /\ pc = [r \in Runs |-> "check"]
    /\ files = [r \in Runs |-> [n \in Names |-> None]]
    /\ exits = [r \in Runs |-> None]
    /\ latest = None
    /\ signed = [r \in Runs |-> None]
    /\ mishaps = <<>>

Next ==
    \E r \in Runs :
        \/ \E proto, verify \in {0, 1} : Check(r, proto, verify)
        \/ WriteSummary(r) \/ WriteLog(r) \/ FillDigest(r) \/ Attest(r) \/ Sign(r)
        \/ WriteIndex(r) \/ WriteManifest(r) \/ Validate(r) \/ Interrupt(r)
        \/ \E name \in Names : Remove(r, name)
        \/ \E name \in Names, other \in Runs : Replace(r, name, other)
        \/ Correct(r)

Spec == Init /\ [][Next]_vars

-----------------------------------------------------------------------------
(* What the evidence is worth.                                               *)

\* Types of the steps, the exit statuses and the files.
TypeOK ==
    /\ pc \in [Runs -> {"check", "summary", "log", "digest", "attest", "sign", "index",
                        "manifest", "validate", "done", "stopped"}]
    /\ exits \in [Runs -> [proto : {0, 1}, verify : {0, 1}] \cup {None}]
    /\ \A r \in Runs :
          /\ DOMAIN files[r] = Names
          /\ files[r].log \in {None, Empty, "passed", "failed"}
          /\ files[r].index = None \/ files[r].index \subseteq Names
    /\ latest \in Runs \cup {None}
    /\ mishaps \in Seq(Runs) /\ Len(mishaps) <= host.mishaps

\* A directory that the strict validation accepts holds the summary, the attestation and the
\* signature as the one run of that directory left them when it signed, whatever happened to
\* its files since; so a summary that says "pass" is that of a run whose checks both passed.
AcceptedIsOneRun ==
    \A d \in Runs : ValidateSummaryArtifact(d, verifier) =>
        /\ signed[d] # None
        /\ \A n \in {"summary", "log", "attestation", "sig"} : files[d][n] = signed[d][n]
        /\ files[d].summary.overall = "pass" <=> exits[d] = [proto |-> 0, verify |-> 0]

\* The files a run leaves satisfy the validator of anyone whose environment has the public
\* half of the key that signed them, as long as nothing happens to them; and LATEST names a
\* directory that the host of the runs accepts.
FinishedRunIsAccepted ==
    \A d \in Runs :
        (pc[d] \in {"validate", "done"} /\ \A i \in DOMAIN mishaps : mishaps[i] # d) =>
            /\ resolveEd25519PublicKey(verifier, host.id) = files[d].sig.key
                   => ValidateSummaryArtifact(d, verifier)
            /\ latest = d => ValidateSummaryArtifact(d, host)

=============================================================================
