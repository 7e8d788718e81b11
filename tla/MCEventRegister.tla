--------------------------- MODULE MCEventRegister ---------------------------
(* Instances of EventRegister for TLC: one person is issuer, auditor and    *)
(* finance chief in all, the chair and the controller change hands.         *)
EXTENDS EventRegister, TLC

CONSTANTS a, b

MCHome     == "csrc" :> "SH" @@ "hkex" :> "HK"
MCRequired ==
    [c \in Categories |-> [x \in {"SH", "HK"} |-> IF x = "SH" THEN {"csrc"} ELSE {"hkex"}]]
MCTenure(id, person, role) ==
    [id |-> id, person |-> person, role |-> role, from |-> 1, to |-> Serving]
MCFounders ==
    {MCTenure(1, "company", "issuer"), MCTenure(2, "firm", "auditor"),
     MCTenure(3, b, "cfo"), MCTenure(4, "owner", "controller"), MCTenure(5, a, "chair")}
MCListing(from, to) == [from |-> from, to |-> to]
MCBoth  == "SH" :> MCListing(2, Serving) @@ "HK" :> MCListing(1, 2)
MCListings == {"SH" :> MCListing(1, Serving), MCBoth}
=============================================================================
