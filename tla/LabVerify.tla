------------------------------ MODULE LabVerify ------------------------------
(***************************************************************************)
(* The verifier of lab records (demo/lab_verify.js): three certificates,   *)
(* each signed with the key of the one before, from the root the caller    *)
(* trusts to the runtime that signed the record.  A signature verifies     *)
(* exactly under the key that made it.                                     *)
(***************************************************************************)
EXTENDS Integers, Sequences, SequencesExt

CONSTANTS
    LabKeys,
    CertPool,   \* certificates: [subject, issuer, signedBy : LabKeys,
                \* current, complete : BOOLEAN]
    TrustRoot   \* response.trust_root.root_pubkey

VARIABLES
    record,     \* [version, readable, certs, signer, signedBy]
    checked,    \* the certificates verified so far, and whether each passed
    errors,     \* the number of errors noted
    verdict

verifyVars == <<record, checked, errors, verdict>>

LabRecords ==
    [version : {1, 2}, readable : BOOLEAN, certs : [1 .. 3 -> CertPool],
     signer : LabKeys, signedBy : LabKeys]

VerifyInit ==
    /\ record \in LabRecords
    /\ checked = <<>> /\ errors = 0
    /\ verdict = "pending"

-----------------------------------------------------------------------------
\* Mutant: a certificate may be issued and signed by any key of the chain.
SelfIssued(cert, parent) ==
    IF cert.complete /\ cert.current /\ cert.signedBy = cert.issuer THEN 0 ELSE 1

\* verifyCert: the errors of a certificate, under the key of its parent; one
\* with a field missing is not looked at further.
CertErrors(cert, parent) ==
    IF ~cert.complete THEN 1
    ELSE LET early == (IF cert.current THEN 0 ELSE 1) + (IF cert.issuer = parent THEN 0 ELSE 1)
         IN IF early = 0 /\ cert.signedBy # parent THEN 1 ELSE early

\* The key a certificate is verified under: the root's is its own issuer's.
ParentKey(i) == IF i = 1 THEN record.certs[1].issuer ELSE record.certs[i - 1].subject

\* verifyLabRecord up to its first await; an early return is a refusal.
Anchor ==
    /\ verdict = "pending"
    /\ IF record.version = 1 /\ record.readable
       THEN /\ verdict' = "checking"
            /\ errors' = (IF record.certs[1].issuer = TrustRoot THEN 0 ELSE 1)
                       + (IF record.certs[1].subject = record.certs[1].issuer THEN 0 ELSE 1)
       ELSE verdict' = "refused" /\ UNCHANGED errors
    /\ UNCHANGED <<record, checked>>

VerifyCert ==
    /\ verdict = "checking"
    /\ Len(checked) < 3
    /\ LET i == Len(checked) + 1
           found == CertErrors(record.certs[i], ParentKey(i))
       IN /\ checked' = Append(checked, found = 0)
          /\ errors' = errors + found
    /\ UNCHANGED <<record, verdict>>

\* The signer of the record, its signature, and the verdict.
VerifyOuter ==
    /\ verdict = "checking"
    /\ Len(checked) = 3
    /\ verdict' = IF errors = 0 /\ record.certs[3].subject = record.signer
                     /\ record.signedBy = record.signer /\ (\A i \in 1 .. 3 : checked[i])
                  THEN "verified" ELSE "refused"
    /\ UNCHANGED <<record, checked, errors>>

VerifyNext == Anchor \/ VerifyCert \/ VerifyOuter

VerifySpec == VerifyInit /\ [][VerifyNext]_verifyVars

-----------------------------------------------------------------------------
\* The key k vouches for the certificates left, and the last of them for the
\* record's signer.
Vouched(k) ==
    LET sound(i, parent) ==
            LET c == record.certs[i] IN
            c.complete /\ c.current /\ c.issuer = parent /\ c.signedBy = parent
    IN /\ sound(1, k) /\ record.certs[1].subject = k
       /\ sound(2, record.certs[1].subject)
       /\ sound(3, record.certs[2].subject)
       /\ record.certs[3].subject = record.signedBy

\* A record is verified exactly when the trusted root vouches for the key that
\* signed it, through certificates that are all in force
\* (lab_verify.js:127-172, 223-286).
VerdictIsGenuine ==
    /\ verdict = "verified" =>
           Vouched(TrustRoot) /\ record.signer = record.signedBy /\ record.version = 1
    /\ verdict = "refused" /\ record.version = 1 /\ record.readable =>
           ~ (Vouched(TrustRoot) /\ record.signer = record.signedBy)
=============================================================================
