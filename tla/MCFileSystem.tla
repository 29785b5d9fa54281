----------------------------- MODULE MCFileSystem -----------------------------
(***************************************************************************)
(* The file system with the image of mkfs and the programs of UserTests:   *)
(* one behaviour for each test and interleaving of its processes.          *)
(***************************************************************************)
EXTENDS FileSystem

T == INSTANCE UserTests

ImageDef == mkfs(<<<<"echo", <<"e">>>>, <<"cat", <<"c">>>>, <<"README", <<"r", "e", "a", "d", "!">>>>>>)
Tests == T!main @@ [init |-> T!init, stressfs |-> T!stressfs, ls |-> T!ls, cat |-> T!cat,
                    commands |-> T!commands, race |-> T!race, dotdot |-> T!dotdot]
Cd == [cd |-> T!cd]
===============================================================================
