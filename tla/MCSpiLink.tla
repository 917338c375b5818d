----------------------------- MODULE MCSpiLink -----------------------------
(***************************************************************************)
(* SpiLink for TLC.  Data bytes repeat the codes of commands, and tempo    *)
(* bytes have the MIDI bit, so that a decoder out of step is seen.         *)
(***************************************************************************)
EXTENDS SpiLink

Msg(type, ms, data) == [type |-> type, midi |-> ms, data |-> data]

On == <<144, 3, 4>>
Off == <<128, 3, 0>>

MCOutgoing ==
  {Msg("null", <<>>, <<>>), Msg("midi", <<On>>, <<>>),
   Msg("cfg_pedal", <<>>, <<3, 129>>)}

MCIncoming ==
  {Msg("midi", <<Off>>, <<>>), Msg("midi", <<On, Off>>, <<>>),
   Msg("tempo", <<>>, <<0, 3, 130, 66>>), Msg("tempo", <<>>, <<0, 0, 244, 66>>),
   Msg("send_tempo", <<>>, <<>>)}
=============================================================================
