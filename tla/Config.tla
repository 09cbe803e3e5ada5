------------------------------- MODULE Config -------------------------------
(***************************************************************************)
(* config.Load (internal/config/config.go): what a start of the server is  *)
(* told by the environment, the flags, a JSON file and the defaults.  Each *)
(* source is a function over the settings; a setting it does not give is   *)
(* Unset, which is not the same as the empty string.                       *)
(***************************************************************************)
CONSTANT Unset          \* the source does not give this setting

\* SERVER_ADDRESS and BASE_URL are read in the same way as these.
Settings == {"DATABASE_DSN", "FILE_STORAGE_PATH", "AUDIT_FILE", "AUDIT_URL", "TRUSTED_SUBNET",
             "ENABLE_HTTPS"}

Defaults == [s \in Settings |-> CASE s = "FILE_STORAGE_PATH" -> "urls.json"
                                  [] s = "ENABLE_HTTPS" -> "false"
                                  [] OTHER -> ""]

Nothing == [s \in Settings |-> Unset]

\* The first that is given
Or(a, b) == IF a # Unset THEN a ELSE b

\* Slip: the file goes before the flags.
resolveFileFirst(s, env, flags, file) == Or(env[s], Or(file[s], Or(flags[s], Defaults[s])))

resolve(s, env, flags, file) == Or(env[s], Or(flags[s], Or(file[s], Defaults[s])))

\* A value of the environment that is no boolean stands for the default.
resolveBool(s, env, flags, file) ==
  IF env[s] \in {Unset, "true", "false"} THEN resolve(s, env, flags, file) ELSE Defaults[s]

\* CONFIG, or the flag, names the file; if it is empty there is none.
resolveConfigPath(env, flags) == Or(env["CONFIG"], Or(flags["CONFIG"], ""))

\* The settings of the file, if it can be read and parsed
loadFileConfig(path, files) == IF path = "" THEN Nothing ELSE files[path]

Resolved(env, flags, file) ==
  [s \in Settings |-> IF s = "ENABLE_HTTPS" THEN resolveBool(s, env, flags, file)
                                            ELSE resolve(s, env, flags, file)]
=============================================================================
