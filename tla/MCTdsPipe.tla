----------------------------- MODULE MCTdsPipe -----------------------------
(***************************************************************************)
(* Values for TLC: a small vocabulary, rule files and message sets that    *)
(* reach every branch of the pipe.                                         *)
(***************************************************************************)
EXTENDS TdsServer

CONSTANTS
    ins, upd,       \* INSERT, UPDATE
    drp, usr,       \* two words that a rule blocks one after the other
    hint,           \* a word that exempts a statement
    oth,            \* any other text
    raw, norm,      \* an e-mail address before and after normalization
    pin,            \* a value of a column that may not be sent
    nul, qnul,      \* NULL, and the string it becomes when it is written again
    whr,            \* WHERE
    bad, moji       \* text that is not UTF-16LE, and what it decodes to

MCSymbols  == {ins, upd, whr, drp, usr, hint, oth, raw, norm, pin, nul, qnul, bad, moji}
MCColumnOf == [s \in MCSymbols |->
                  CASE s \in {raw, norm} -> "Email"
                    [] s = pin            -> "Pin"
                    [] s \in {nul, qnul}  -> "Note"
                    [] OTHER              -> None]
MCSuggest  == [s \in MCSymbols |-> IF s \in {raw, norm} THEN norm ELSE None]
MCRequote  == [s \in MCSymbols |-> IF s = nul THEN qnul ELSE s]
MCFit      == MCSuggest
MCUndecodable == {bad}

MCTable == "Users"

ExemptRule == [id |-> "exempt", target |-> "pattern", selector |-> <<hint>>,
               action |-> "allow"]
DropRule   == [id |-> "drop", target |-> "pattern", selector |-> <<drp, usr>>,
               action |-> "block", enabled |-> TRUE]
OffRule    == [id |-> "off", target |-> "pattern", selector |-> <<oth>>,
               action |-> "block", enabled |-> FALSE]
EmailRule  == [id |-> "email", target |-> "column",
               selector |-> [tab |-> None, col |-> "Email"], action |-> "autocorrect"]
PinRule    == [id |-> "pin", target |-> "column",
               selector |-> [tab |-> None, col |-> "Pin"], action |-> "block"]

MCRules == <<ExemptRule, OffRule, DropRule, EmailRule, PinRule>>

Batch(parts) == [typ |-> "batch", reset |-> FALSE, parts |-> parts]
Call(parts)  == [typ |-> "rpc",   reset |-> FALSE, parts |-> parts]
Other(parts) == [typ |-> "other", reset |-> FALSE, parts |-> parts]

\* Sent on a pooled connection.
Resetting(m) == [m EXCEPT !.reset = TRUE]

\* Each kind of outcome once; what decides it comes in a later packet.
MCMessages == {
    Batch(<< <<drp>>, <<usr>> >>),
    Batch(<< <<hint, drp>>, <<usr>> >>),
    Batch(<< <<ins, raw, nul>>, <<oth, pin, raw>> >>),
    Batch(<< <<ins, raw, nul, oth, nul>> >>),
    Batch(<< <<upd, nul, raw, whr>> >>),
    Batch(<< <<upd, raw>> >>),
    Batch(<< <<>> >>),
    Call(<< <<oth>>, <<raw>> >>),
    Call(<< <<oth>>, <<pin>> >>),
    Call(<< <<oth>> >>),
    Other(<< <<oth>>, <<oth>> >>) }

\* Dry run: calls of one packet, batches of any number.
MCDryMessages == {
    Batch(<< <<drp>>, <<usr>> >>),
    Resetting(Batch(<< <<ins, raw>>, <<oth>> >>)),
    Batch(<< <<upd>>, <<raw>>, <<whr>> >>),
    Resetting(Call(<< <<oth, raw>> >>)),
    Call(<< <<pin>> >>),
    Resetting(Other(<< <<oth>>, <<oth>> >>)) }

\* Short messages, so that leftovers of a failed iteration meet later ones.
MCFailMessages == {
    Batch(<< <<>> >>),
    Batch(<< <<drp>>, <<usr>> >>),
    Batch(<< <<ins, raw>> >>),
    Call(<< <<pin>>, <<raw>> >>),
    Call(<< <<raw>> >>),
    Call(<< <<oth>> >>),
    Other(<< <<oth>> >>) }

\* Messages for the runs on differences between documents and code.
MCLongCall == {Call(<< <<oth>>, <<raw>> >>)}
MCForbidden == {Batch(<< <<ins, raw, pin>> >>), Batch(<< <<drp>>, <<usr>> >>)}

\* What the proof about dry runs asks of messages holds of the first set, and the
\* call of the second is why it asks.
ASSUME DryMessagesAssumption ==
    /\ \A m \in MCDryMessages : HandedOn(m)
    /\ \A m \in MCLongCall : ~HandedOn(m)
=============================================================================
