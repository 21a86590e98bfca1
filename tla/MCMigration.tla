----------------------------- MODULE MCMigration -----------------------------
(* Instances of Migration for TLC: one OS item (source 1) and one          *)
(* token.json (source 2); tokens a and b on the machine, n brought by the  *)
(* user or a refresh.                                                      *)
EXTENDS Migration

CONSTANTS a, b, n

MCToken == {a, b, n}
MCNewToken == {n}

AllOps == {"command", "set-credential", "clear", "clear-all"}
TokenOps == {"command", "set-credential", "clear"}
Commands == {"command"}

(* Every placing of a and b in the sources and the keyring.                *)
AnyLegacy == [Source -> {a, b, None}]
AnyKeyring == {a, None}

(* A machine with one token, in some of its sources.                       *)
OneLegacy == [Source -> {a, None}]

AnyClient == ClientState \X ClientState
AnyConfig == {<<"absent", "absent">>, <<"absent", "target">>,
              <<"unset", "absent">>, <<"legacyPath", "absent">>,
              <<"target", "unset">>}

(* A usable client JSON, which the token migration can rely on.            *)
UsableClient == {<<"valid", "absent">>, <<"absent", "valid">>}
OneClient == {<<"valid", "absent">>}
FreshConfig == {<<"absent", "absent">>}
FreshOrJson == {<<"absent", "absent">>, <<"absent", "target">>}
=============================================================================
