----------------------------- MODULE MCProcess -----------------------------
(* Instances of Process for TLC.                                           *)
EXTENDS Process, TLC

Silent == [s \in Settings \cup {"CONFIG"} |-> Unset]

DSN(v) == "DATABASE_DSN" :> v
Path(v) == "FILE_STORAGE_PATH" :> v
Audit(v) == "AUDIT_FILE" :> v
AuditURL(v) == "AUDIT_URL" :> v
Subnet(v) == "TRUSTED_SUBNET" :> v
File(v) == "CONFIG" :> v

\* A database, a path and neither; a value taken back with the empty string.
SomeEnvs == {Silent, Path("") @@ Silent, File("") @@ Path("/env") @@ Silent,
             DSN("") @@ Silent, DSN("postgres://") @@ Silent}
SomeFlags == {Silent, File("config.json") @@ Silent, File("missing") @@ Silent,
              File("config.json") @@ Path("/flag") @@ Silent,
              Subnet(Bad) @@ Silent, AuditURL(Bad) @@ Silent}
SomeFiles ==
  {("config.json" :> f @@ "missing" :> Bad) :
     f \in {Path("") @@ Nothing,
            DSN("postgres://") @@ Path("/file") @@ Nothing,
            Audit("audit.log") @@ "ENABLE_HTTPS" :> "true" @@ Nothing}}
=============================================================================
