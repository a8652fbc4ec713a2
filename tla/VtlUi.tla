------------------------------- MODULE VtlUi --------------------------------
(***************************************************************************)
(* The menus of ui/vtl_ui.c: what it reads from what is typed, and the     *)
(* calls of the launcher it makes.  Typed is a sequence of keys: digits,   *)
(* letters, and the newline after them.                                    *)
(***************************************************************************)
EXTENDS Naturals, Sequences, SequencesExt

Newline == "newline"
White == {Newline, "space"}
Digits == <<"1", "2", "3", "4">>       \* the numbers of the instances have one digit
Value(key) == CHOOSE n \in DOMAIN Digits : Digits[n] = key

(* scanf("%d"): white space is skipped, and anything but a number stays    *)
(* where it is; the variable keeps what it held, which nobody set.         *)
RECURSIVE ScanNumber(_, _)
ScanNumber(keys, junk) ==
    CASE keys = <<>> -> [keys |-> keys, n |-> junk, got |-> FALSE]
      [] keys # <<>> /\ keys[1] \in White -> ScanNumber(Tail(keys), junk)
      [] keys # <<>> /\ keys[1] \in ToSet(Digits) -> [keys |-> Tail(keys), n |-> Value(keys[1]), got |-> TRUE]
      [] OTHER -> [keys |-> keys, n |-> junk, got |-> FALSE]

(* scanf("%c"): the very next key, white space too; none at the end.       *)
ScanKey(keys) == IF keys = <<>> THEN [keys |-> keys, c |-> "none"] ELSE [keys |-> Tail(keys), c |-> keys[1]]

\* Modes of menu_mode()
UiModes == <<"input", "output", "hooker">>

(* select_interface(): the name of the device chosen, counted from 1; what *)
(* an entry of devs that was not filled holds is nobody's choice.          *)
DevsFromZero(n, devs) == IF n + 1 \in DOMAIN devs THEN devs[n + 1] ELSE "junk"
select_interface(n, devs) == IF n \in DOMAIN devs THEN devs[n] ELSE "junk"

(* deploy_tf() and remove_tf(): the call of the launcher;                  *)
(* an unknown mode is an error before any device is asked for.             *)
UiCall(choice, mode, dev) == [op |-> IF choice = 1 THEN "deploy" ELSE "remove", mode |-> UiModes[mode], dev |-> dev]

(* One turn of the loop of main().  s: the keys left, the calls made,      *)
(* whether a number could not be read and whether the program has ended;   *)
(* how: whether the launcher's call works, or the devices cannot be found, *)
(* which ends the program before one is chosen.                            *)
UiTurn(s, junk, devs, how) ==
    LET choice == ScanNumber(s.keys, junk)
        mode == ScanNumber(choice.keys, junk)
        dev == ScanNumber(mode.keys, junk)
        again == ScanKey(dev.keys)
        lost == s.lost \/ ~choice.got
    IN  CASE choice.n = 3 -> [s EXCEPT !.keys = choice.keys, !.lost = lost, !.over = TRUE]
          [] choice.n \in {1, 2} /\ mode.n \notin 1 .. 3 ->
                 [s EXCEPT !.keys = mode.keys, !.lost = lost \/ ~mode.got, !.over = TRUE]
          [] choice.n \in {1, 2} /\ mode.n \in 1 .. 3 /\ how = "no devices" ->
                 [s EXCEPT !.keys = mode.keys, !.lost = lost \/ ~mode.got, !.over = TRUE]
          [] choice.n \in {1, 2} /\ mode.n \in 1 .. 3 /\ how # "no devices" ->
                 [keys |-> IF how = "works" THEN again.keys ELSE dev.keys, lost |-> lost \/ ~mode.got \/ ~dev.got,
                  calls |-> Append(s.calls, UiCall(choice.n, mode.n, select_interface(dev.n, devs))),
                  over |-> how = "fails" \/ again.c = "E"]
          [] OTHER -> [s EXCEPT !.keys = choice.keys, !.lost = lost]

=============================================================================
