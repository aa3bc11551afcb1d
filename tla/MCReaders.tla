------------------------------ MODULE MCReaders ------------------------------
(***************************************************************************)
(* The three readers of bytes: the parsers of the link PHY layer and of    *)
(* the USB radio stick, and the console.  They share nothing: a behaviour  *)
(* is one of the three, whichever is `used_one`.                           *)
(***************************************************************************)
EXTENDS PhyParser, UsbParser, Console

VARIABLE used_one

(* A command with and without an argument, the line that just fits and the
   shortest ones that do not, of which one ends in a command, and an empty one. *)
CommandWords == {<<"a">>, <<"b", "b">>}
TypedLines == {<<"\n">>, <<"a", "\n">>, <<"b", "b", " ", "\n">>, <<"a", " ", "x", "x", "\n">>,
               <<"a", " ", "x", "x", " ", "a", "\n">>, <<"x", "\n">>}

EitherInit == Init /\ UsbInit /\ ConsoleInit
              /\ used_one \in {"link_phy", "usb_stick", "console"}
EitherNext ==
  /\ \/ used_one = "link_phy" /\ Next /\ UNCHANGED <<usbVars, consoleVars>>
     \/ used_one = "usb_stick" /\ UsbNext /\ UNCHANGED <<vars, consoleVars>>
     \/ used_one = "console" /\ ConsoleNext /\ UNCHANGED <<vars, usbVars>>
  /\ UNCHANGED used_one
EitherSpec ==
  /\ EitherInit /\ [][EitherNext]_<<vars, usbVars, consoleVars, used_one>>
  /\ used_one = "link_phy" => Fairness
=============================================================================
