------------------------------ MODULE MCGeeORM ------------------------------
(* Two models: User defines every hook, Account none.  Two keys and two   *)
(* values give tables with zero, one and two rows and updates that change *)
(* a row.  User gained a field and lost one since its table was created  *)
(* (Migrate adds and rebuilds); Account lost one (rebuild only) and has an *)
(* embedded and an unexported field that schema.Parse skips.              *)
EXTENDS GeeORM

CONSTANTS User, Account

Hooks == {"BeforeInsert", "AfterInsert", "BeforeQuery", "AfterQuery",
          "BeforeUpdate", "AfterUpdate", "BeforeDelete", "AfterDelete"}

MCHooked == {User} \X Hooks

Fld(n) == [name |-> n, exported |-> TRUE, anonymous |-> FALSE]

MCStructs ==
    [m \in Models |->
        IF m = User THEN <<Fld("Name"), Fld("Age")>>
        ELSE <<[name |-> "Model", exported |-> TRUE, anonymous |-> TRUE],
               Fld("Name"),
               [name |-> "secret", exported |-> FALSE, anonymous |-> FALSE]>>]

MCOldStructs ==
    [m \in Models |->
        IF m = User THEN <<Fld("Name"), Fld("Email")>>
        ELSE <<Fld("Name"), Fld("Balance")>>]
=============================================================================
