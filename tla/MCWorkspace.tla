----------------------------- MODULE MCWorkspace -----------------------------
(* Instances of Workspace: what its definition file may say. *)
EXTENDS Workspace

CONSTANTS m1, m2

Doc(form, names) == [form |-> form, names |-> names]

Texts == {Doc("members", <<m1>>), Doc("members", <<m1, m1>>), Doc("agents", <<m1, m2>>)}
=============================================================================
