------------------------------ MODULE Network -------------------------------
(***************************************************************************)
(* The network plugin (src/network.c) of two daemons.  One of them encodes *)
(* value lists into its send buffer and sends the buffer when it is full,  *)
(* flushed or when the plugin shuts down.  The other one takes packets off *)
(* its sockets in the receive thread, hands them over to the dispatch      *)
(* thread, which decodes them, and may be shut down at any time.  Between  *)
(* them UDP loses, repeats and reorders packets.                           *)
(*                                                                         *)
(* A packet is a sequence of parts.  A part for a field (host, time, type  *)
(* instance ...) is one unit long, whatever it contains; the fields of the *)
(* last value list stay in force for the next one in the same packet.      *)
(* Values travel in one direction, so that check_send_okay and             *)
(* check_receive_okay, which keep them from going round in circles, find   *)
(* nothing to object to.                                                   *)
(* Left out: signatures and encryption, notifications, the statistics, the *)
(* age of the buffer, and failures of memory allocation.                   *)
(*                                                                         *)
(* Definitions named X_Y are X with a mistake Y: they are used only to     *)
(* show that the properties notice it.                                     *)
(***************************************************************************)
EXTENDS Integers, Sequences, SequencesExt, FiniteSetsExt

CONSTANTS
  FieldOrder,   \* the fields in the order in which add_to_buffer writes them
  Required,     \* the fields a received value list must have
  ValueList,    \* [id : [field -> content], size : length of the values]
  Empty,        \* the content of a field that was never set
  PacketSize,   \* network_config_packet_size
  BuffSigSize,  \* BUFF_SIG_SIZE
  Width,        \* the number of values of an uint64_t
  MaxWrites,    \* bound: calls of network_write
  MaxPackets    \* bound: packets that arrive

Field == {FieldOrder[i] : i \in 1..Len(FieldOrder)}

Name == {vl.id[f] : vl \in ValueList, f \in Field} \cup {Empty}

ASSUME NetworkAssumption ==
  /\ FieldOrder \in Seq(Field) /\ "values" \notin Field
  /\ Required \subseteq Field
  /\ ValueList \subseteq [id : [Field -> Name], size : Nat \ {0}]
  /\ \A vl \in ValueList, f \in Required : vl.id[f] # Empty  \* plugin_dispatch_values sees to it
  /\ BuffSigSize \in Nat /\ PacketSize \in Nat /\ PacketSize > BuffSigSize
  /\ MaxPackets \in Nat /\ Width \in Nat /\ MaxPackets < Width

VARIABLES
  send_buffer,     \* the parts of the next packet
  send_buffer_vl,  \* the fields they set
  written,         \* history: the value lists network_write accepted
  failed,          \* history: how many calls of network_write have failed
  sent,            \* history: the packets sent
  received,        \* history: the packets taken off the sockets
  private_list, receive_list, receive_list_length,
  parsing,         \* the packet the dispatch thread works on: <<p>> or <<>>
  dispatched,      \* history: the packets it has finished
  receive_thread, dispatch_thread, main, listen_loop

sender == <<send_buffer, send_buffer_vl, written, failed, sent>>
lists == <<private_list, receive_list, receive_list_length>>
vars == <<sender, received, lists, parsing, dispatched,
          receive_thread, dispatch_thread, main, listen_loop>>

-----------------------------------------------------------------------------
(* Encoding *)

NoFields == [f \in Field |-> Empty]

\* The fields in which a value list differs from the one before, in their order.
Changed(def, vl) ==
  LET differs(f) == def[f] # vl.id[f]
      first[n \in 0..Len(FieldOrder)] ==
        IF n = 0 THEN <<>>
        ELSE IF differs(FieldOrder[n]) THEN Append(first[n - 1], FieldOrder[n])
        ELSE first[n - 1]
  IN  first[Len(FieldOrder)]

\* add_to_buffer: a part for each of them and one for the values.
Encoded(def, vl) ==
  LET c == Changed(def, vl)
  IN  [i \in 1..Len(c) |-> [field |-> c[i], name |-> vl.id[c[i]], size |-> 1]]
        \o <<[field |-> "values", name |-> vl, size |-> vl.size]>>

PacketLen(packet) == MapThenSumSet(LAMBDA i : packet[i].size, DOMAIN packet)

Room(packet) == PacketSize - (PacketLen(packet) + BuffSigSize)

\* A part that does not fit ends add_to_buffer; the fields before it count as
\* written.
PartlyWritten(def, vl, room) ==
  LET c == Changed(def, vl)
  IN  [f \in Field |->
        IF \E i \in 1..Len(c) : i <= room /\ c[i] = f THEN vl.id[f] ELSE def[f]]

Fits(packet, def, vl) == PacketLen(Encoded(def, vl)) <= Room(packet)

\* flush_buffer: send, and start anew.
AfterFlush_KeepsFields == [buffer |-> <<>>, vl |-> send_buffer_vl]
AfterFlush == [buffer |-> <<>>, vl |-> NoFields]

network_write(vl) ==
  LET fits == Fits(send_buffer, send_buffer_vl, vl)
      b == IF fits THEN [buffer |-> send_buffer, vl |-> send_buffer_vl] ELSE AfterFlush
  IN  /\ Len(written) + failed < MaxWrites
      /\ sent' = IF fits THEN sent ELSE Append(sent, send_buffer)
      /\ \/ /\ Fits(b.buffer, b.vl, vl)
            /\ send_buffer' = b.buffer \o Encoded(b.vl, vl)
            /\ send_buffer_vl' = vl.id
            /\ written' = Append(written, vl)
            /\ UNCHANGED failed
         \/ /\ ~Fits(b.buffer, b.vl, vl)
            /\ send_buffer' = b.buffer
            /\ send_buffer_vl' = PartlyWritten(b.vl, vl, Room(b.buffer))
            /\ failed' = failed + 1
            /\ UNCHANGED written
      /\ UNCHANGED <<received, lists, parsing, dispatched,
                     receive_thread, dispatch_thread, main, listen_loop>>

\* network_flush, for a buffer that is old enough, and the end of
\* network_shutdown.
network_flush ==
  /\ send_buffer # <<>>
  /\ sent' = Append(sent, send_buffer)
  /\ send_buffer' = AfterFlush.buffer
  /\ send_buffer_vl' = AfterFlush.vl
  /\ UNCHANGED <<written, failed, received, lists, parsing, dispatched,
                 receive_thread, dispatch_thread, main, listen_loop>>

-----------------------------------------------------------------------------
(* Decoding *)

\* One part: a field stays in force until it is set again; values are
\* dispatched with the fields as they are, but network_dispatch_values refuses
\* them when a required one is missing.
ParsePart(state, part) ==
  CASE part.field # "values" -> [state EXCEPT !.id[part.field] = part.name]
    [] part.field = "values" /\ \E f \in Required : state.id[f] = Empty -> state
    [] OTHER -> [state EXCEPT !.vls = Append(@, [id |-> state.id, size |-> part.size])]

\* parse_packet: what is known after all parts, and dispatched on the way.
Parsed(packet) ==
  LET after[n \in 0..Len(packet)] ==
        IF n = 0 THEN [id |-> NoFields, vls |-> <<>>]
        ELSE ParsePart(after[n - 1], packet[n])
  IN  after[Len(packet)]

Decoded(packet) == Parsed(packet).vls

-----------------------------------------------------------------------------
(* network_receive *)

\* receive_list_lock; only the dispatch thread keeps it for more than one step.
ListUnlocked == dispatch_thread # "locked"

\* pthread_cond_signal(&receive_list_cond)
Signalled == IF dispatch_thread = "wait" THEN "lock" ELSE dispatch_thread

others_of_receive == <<sender, parsing, dispatched, main, listen_loop>>

receive_loop_test ==
  /\ receive_thread = "test"
  /\ receive_thread' = IF listen_loop = 0 THEN "poll" ELSE "end"
  /\ UNCHANGED <<others_of_receive, received, lists, dispatch_thread>>

\* poll and recvfrom return a packet, one of those sent so far.
receive_packet ==
  /\ receive_thread = "poll"
  /\ Len(received) < MaxPackets
  /\ \E i \in 1..Len(sent) :
       /\ received' = Append(received, sent[i])
       /\ private_list' = Append(private_list, sent[i])
  /\ receive_thread' = "try"
  /\ UNCHANGED <<others_of_receive, receive_list, receive_list_length, dispatch_thread>>

\* poll or recvfrom fails.
receive_error ==
  /\ receive_thread = "poll"
  /\ receive_thread' = "end"
  /\ UNCHANGED <<others_of_receive, received, lists, dispatch_thread>>

\* The private list becomes the end of the shared one.
Pushed_DropsOld ==
  /\ receive_list' = private_list
  /\ receive_list_length' = (receive_list_length + Len(private_list)) % Width
  /\ private_list' = <<>>
  /\ dispatch_thread' = Signalled
Pushed_SetsLength ==
  /\ receive_list' = receive_list \o private_list
  /\ receive_list_length' = Len(private_list)
  /\ private_list' = <<>>
  /\ dispatch_thread' = Signalled
Pushed ==
  /\ receive_list' = receive_list \o private_list
  /\ receive_list_length' = (receive_list_length + Len(private_list)) % Width
  /\ private_list' = <<>>
  /\ dispatch_thread' = Signalled

\* The assertion; it fails if the counter does not tell whether the list is empty.
LengthMatches == (receive_list = <<>>) <=> (receive_list_length = 0)

\* abort: the daemon is gone.
Abort ==
  /\ main' = "aborted"
  /\ receive_thread' = "exit" /\ dispatch_thread' = "exit"
  /\ UNCHANGED lists

\* pthread_mutex_trylock: on failure the packets wait for the next one.
receive_try_NoSignal ==
  /\ receive_thread = "try"
  /\ \/ /\ ListUnlocked /\ LengthMatches
        /\ receive_list' = receive_list \o private_list
        /\ receive_list_length' = (receive_list_length + Len(private_list)) % Width
        /\ private_list' = <<>>
        /\ receive_thread' = "test" /\ UNCHANGED <<dispatch_thread, main>>
     \/ ListUnlocked /\ ~LengthMatches /\ Abort
     \/ ~ListUnlocked /\ receive_thread' = "test" /\ UNCHANGED <<lists, dispatch_thread, main>>
  /\ UNCHANGED <<sender, received, parsing, dispatched, listen_loop>>
receive_try ==
  /\ receive_thread = "try"
  /\ \/ ListUnlocked /\ LengthMatches /\ Pushed /\ receive_thread' = "test" /\ UNCHANGED main
     \/ ListUnlocked /\ ~LengthMatches /\ Abort
     \/ ~ListUnlocked /\ receive_thread' = "test" /\ UNCHANGED <<lists, dispatch_thread, main>>
  /\ UNCHANGED <<sender, received, parsing, dispatched, listen_loop>>

receive_end ==
  /\ receive_thread = "end"
  /\ \/ private_list # <<>> /\ ListUnlocked /\ Pushed
     \/ private_list = <<>> /\ UNCHANGED <<lists, dispatch_thread>>
  /\ receive_thread' = "exit"
  /\ UNCHANGED <<others_of_receive, received>>

-----------------------------------------------------------------------------
(* dispatch_thread *)

others_of_dispatch == <<sender, received, private_list, receive_thread, main, listen_loop>>

dispatch_lock ==
  /\ dispatch_thread = "lock"
  /\ dispatch_thread' = "locked"
  /\ UNCHANGED <<others_of_dispatch, receive_list, receive_list_length, parsing, dispatched>>

dispatch_wait ==
  /\ dispatch_thread = "locked"
  /\ listen_loop = 0 /\ receive_list = <<>>
  /\ dispatch_thread' = "wait"
  /\ UNCHANGED <<others_of_dispatch, receive_list, receive_list_length, parsing, dispatched>>

spurious_wakeup ==
  /\ dispatch_thread = "wait"
  /\ dispatch_thread' = "lock"
  /\ UNCHANGED <<others_of_dispatch, receive_list, receive_list_length, parsing, dispatched>>

\* The length is decremented in any case.
dispatch_take ==
  /\ dispatch_thread = "locked"
  /\ listen_loop # 0 \/ receive_list # <<>>
  /\ receive_list_length' = (receive_list_length + Width - 1) % Width
  /\ \/ /\ receive_list # <<>>
        /\ parsing' = <<Head(receive_list)>>
        /\ receive_list' = Tail(receive_list)
        /\ dispatch_thread' = "parse"
     \/ /\ receive_list = <<>>
        /\ dispatch_thread' = "exit"
        /\ UNCHANGED <<parsing, receive_list>>
  /\ UNCHANGED <<others_of_dispatch, dispatched>>

dispatch_parse ==
  /\ dispatch_thread = "parse"
  /\ dispatched' = dispatched \o parsing
  /\ parsing' = <<>>
  /\ dispatch_thread' = "lock"
  /\ UNCHANGED <<others_of_dispatch, receive_list, receive_list_length>>

DispatchStep == dispatch_lock \/ dispatch_wait \/ dispatch_take \/ dispatch_parse

-----------------------------------------------------------------------------
(* network_shutdown *)

others_of_main == <<sender, received, lists, parsing, dispatched>>

shutdown_listen ==
  /\ main = "run"
  /\ listen_loop' = 1
  /\ main' = "kill"
  /\ UNCHANGED <<others_of_main, receive_thread, dispatch_thread>>

\* The signal interrupts poll if the thread is in it, and nothing else.
shutdown_kill ==
  /\ main = "kill"
  /\ receive_thread' = IF receive_thread = "poll" THEN "test" ELSE receive_thread
  /\ main' = "join"
  /\ UNCHANGED <<others_of_main, dispatch_thread, listen_loop>>

shutdown_broadcast ==
  /\ main = "join"
  /\ receive_thread = "exit"
  /\ ListUnlocked
  /\ dispatch_thread' = Signalled
  /\ main' = "wait"
  /\ UNCHANGED <<others_of_main, receive_thread, listen_loop>>

shutdown_done ==
  /\ main = "wait"
  /\ dispatch_thread = "exit"
  /\ main' = "done"
  /\ UNCHANGED <<others_of_main, receive_thread, dispatch_thread, listen_loop>>

-----------------------------------------------------------------------------
Init ==
  /\ send_buffer = <<>> /\ send_buffer_vl = NoFields
  /\ written = <<>> /\ failed = 0 /\ sent = <<>>
  /\ received = <<>>
  /\ private_list = <<>> /\ receive_list = <<>> /\ receive_list_length = 0
  /\ parsing = <<>> /\ dispatched = <<>>
  /\ receive_thread = "test" /\ dispatch_thread = "lock"
  /\ main = "run" /\ listen_loop = 0

Next ==
  \/ \E vl \in ValueList : network_write(vl)
  \/ network_flush
  \/ receive_loop_test \/ receive_packet \/ receive_error \/ receive_try \/ receive_end
  \/ DispatchStep
  \/ spurious_wakeup
  \/ shutdown_listen \/ shutdown_kill \/ shutdown_broadcast \/ shutdown_done

Spec == Init /\ [][Next]_vars

FairSpec == Spec /\ WF_vars(DispatchStep)

-----------------------------------------------------------------------------
(* Properties *)

\* Every packet can be decoded without the packets before it, and together
\* with the buffer they hold exactly the value lists that were written, each
\* with its own fields, unless a call of network_write has failed before.
PacketsDecode ==
  failed = 0 =>
    FlattenSeq([i \in 1..Len(sent) |-> Decoded(sent[i])]) \o Decoded(send_buffer)
      = written

\* Packets pass from the receive to the dispatch thread in order, none is lost
\* and none is handled twice.
HandedOverInOrder ==
  received = dispatched \o parsing \o receive_list \o private_list

\* The assertion in network_receive that the counter matches the list never
\* fails while the plugin runs; it may do so in a shutdown only (see README).
AbortOnlyInShutdown == main = "aborted" => listen_loop # 0

\* What has been handed over is taken by the dispatch thread.
PushedIsTaken == receive_list # <<>> ~> receive_list = <<>> \/ listen_loop # 0

\* "we dispatch all missing packets before shutting down"
AllDispatched == main = "done" => dispatched = received
=============================================================================
