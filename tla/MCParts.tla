-------------------------------- MODULE MCParts --------------------------------
(***************************************************************************)
(* An instance for TLC of the parts that run by themselves: the market's   *)
(* storage for one token, the mocks of the vendored library, with the      *)
(* square root of Math.sol, and its migration script. They share nothing,  *)
(* so a behaviour runs one of them and leaves the others at their start.   *)
(***************************************************************************)
EXTENDS MCOrderStorage, Mocks, Migration, PathTable, OzMath

VARIABLE program

partsVars == <<program, storageVars, vars, migrationVars>>

PartsInit ==
    /\ StorageInit /\ Init /\ MigrationInit
    /\ program \in {"storage", "mocks", "script"}
    /\ program # "mocks" => contract.mock = "cast"
    /\ program # "script" => disk \in [Solidity -> {<< >>}]

PartsNext ==
    \/ program = "storage" /\ StorageNext /\ UNCHANGED <<program, vars, migrationVars>>
    \/ program = "mocks" /\ Next /\ UNCHANGED <<program, storageVars, migrationVars>>
    \/ program = "script" /\ MigrationNext /\ UNCHANGED <<program, storageVars, vars>>

PartsSpec == PartsInit /\ [][PartsNext]_partsVars /\ Fairness

\* A directory with a directory in it, one file of which is named as well.
Directories ==
    "contracts" :> <<"Token", "README", "sale">> @@ "sale" :> <<"Sale">>
Paths == <<"contracts", "Token">>
SolidityFiles == {"Token", "Sale"}

\* The paths of the table, and one it does not have.
Token == <<"token", "Token">>
AllPaths == {Token} \cup UNION {{u.old, u.new} : u \in ToSet(Table)}

Math == <<"math", "Math">>
NewMath == <<"utils/math", "Math">>

\* What the files hold: nothing, both packages' paths, two old paths with one
\* new path, a path twice, a path that is new already.
Texts ==
    {<< >>,
     <<Plain(Math), Upgradeable(Math)>>,
     <<Upgradeable(Math)>>,
     <<Plain(<<"utils", "PaymentSplitter">>), Plain(<<"payment", "PaymentSplitter">>)>>,
     <<Plain(Math), Plain(Token), Plain(Math), Plain(Math)>>,
     <<Plain(NewMath), Plain(Math)>>}
================================================================================
