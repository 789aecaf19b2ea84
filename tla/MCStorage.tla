------------------------------ MODULE MCStorage ------------------------------
(* An instance of Storage: what its requests ask. *)
EXTENDS Storage, TLC

At(inst, sel) == [block |-> "b", field |-> "f", inst |-> inst, sel |-> sel]
Record(k, i) == [kind |-> k, item |-> i]

CreateMain == [kind |-> "create", name |-> "b", fields |-> <<"f">>, inst |-> None]
CreateTemp == [kind |-> "create", name |-> "b", fields |-> <<"f">>, inst |-> "i"]
Double == [kind |-> "replace", target |-> At("i", <<-1>>),
           with |-> <<At("i", <<>>), [lit |-> <<1>>]>>]
ReadFirst == [kind |-> "read", with |-> <<At("i", <<0>>)>>]
DropTemp == [kind |-> "drop", inst |-> "i"]
AppendTwo == [kind |-> "append", records |-> <<Record("message", 1), Record("mcl", 2)>>]
AppendOne == [kind |-> "append", records |-> <<Record("message", 3)>>]
AppendBad == [kind |-> "append", records |-> <<Record("mcl", 1), Record("other", 2)>>]
ReadAll == [kind |-> "history", kinds |-> {"message", "mcl"}]
Set(k) == [kind |-> "setconf", path |-> <<"t", k>>, value |-> 1]
ReadConf == [kind |-> "readconf", path |-> <<"t">>]

CONSTANTS r1, r2
Wanted == r1 :> {CreateTemp, AppendTwo, Set("k")}
          @@ r2 :> {CreateMain, Double, ReadFirst, DropTemp, AppendOne, AppendBad,
                    ReadAll, Set("l"), ReadConf}
Operations == Wanted[r1] \cup Wanted[r2]

DefaultSettings == <<"t">> :> Table
=============================================================================
