------------------------ MODULE DPCoordinatorProofs ------------------------
(***************************************************************************)
(* The waves of a data-parallel deployment, for any number of engines,     *)
(* front ends and requests and for all plans: the engines count the same   *)
(* wave and nobody is ahead of them; a pause holds until the resume; and   *)
(* when everything has come to rest the coordinator and the front ends     *)
(* know that the engines are idle.                                         *)
(*                                                                         *)
(* The parties see each other through messages only, so that the inductive *)
(* invariant is about what is in flight: how old a message may be, which   *)
(* messages are sent once, and which belief a message on its way will      *)
(* correct.                                                                *)
(***************************************************************************)
EXTENDS DPCoordinator, TLAPS

\* The messages of a channel, and the last one.
Elems(s) == {s[i] : i \in DOMAIN s}
Latest(s) == s[Len(s)]

Input == [type : {"ADD", "ABORT"}, req : Request, wave : Nat]
           \cup [type : {"PAUSE"}, mode : plan.pause] \cup [type : {"RESUME"}]
ToCoord == [engine : {identity(e) : e \in Engine}, wave : Nat]
Update == [wave : Nat, running : BOOLEAN]
StartWave == [wave : Nat, exclude : {NoEngine} \cup Engine \cup {identity(e) : e \in Engine}]
Output == [type : {"wave_complete", "start_wave"}, wave : Nat]

TypeInv ==
    /\ TypeOK
    /\ plan \in Plans
    /\ started \subseteq Request
    /\ ignored \in BOOLEAN

\* The wave of the engines.
Wave == current_wave[0]

\* The engines agree on the wave, and no belief and no message is ahead of it;
\* a wave that is reported complete is over.
WaveInv ==
    /\ \A e \in Engine : current_wave[e] = Wave
    /\ coord_wave <= Wave
    /\ \A c \in Client :
          /\ client_wave[c] <= coord_wave
          /\ \A m \in Elems(updates[c]) : m.wave <= coord_wave
          /\ \A e \in Engine : \A m \in Elems(inputs[c][e]) : m.type = "ADD" => m.wave <= Wave
    /\ \A e \in Engine :
          /\ \A m \in Elems(start_wave[e]) : m.wave <= Wave
          /\ \A m \in Elems(output[e]) :
                m.wave <= Wave /\ (m.type = "wave_complete" => m.wave < Wave)

\* Two messages that are not both sent to one engine: the ADD of a request, a pause.
Clash(m, n) ==
    /\ m.type = n.type
    /\ m.type = "PAUSE" \/ (m.type = "ADD" /\ m.req = n.req)

Once(s) == \A i, j \in DOMAIN s : Clash(s[i], s[j]) => i = j

\* A request is with one engine; its ADD is sent once, and until it arrives the
\* request is in no scheduler.
RequestInv ==
    /\ \A e \in Engine : \A r \in scheduler[e] :
          left[r] > 0 /\ \E c \in Client : home[r] = <<c, e>>
    /\ \A c \in Client, e \in Engine :
          /\ Once(inputs[c][e])
          /\ \A m \in Elems(inputs[c][e]) :
                /\ m.type \in {"ADD", "ABORT"} => home[m.req] = <<c, e>>
                /\ m.type = "ADD" => m.req \notin scheduler[e] /\ m.req \notin started
    /\ \A r \in started : home[r] # <<>>
    /\ \A c \in Client : "first_req" \in events[c] => first_req[c] # <<>>

\* A pause is on its way to engine e.
Called(e) == \E c \in Client : \E m \in Elems(inputs[c][e]) : m.type = "PAUSE"

\* The states of an engine during a pause: it has not heard of it, it has and
\* waits for the others, they have agreed.
Unpaused(e) ==
    /\ pause_state[e] = "UNPAUSED"
    /\ ~pending_pause[e] /\ ~ignore_start_dp_wave[e] /\ ~callbacks[e]

Waiting(e) ==
    /\ pause_state[e] # "UNPAUSED"
    /\ pending_pause[e] /\ engines_running[e] /\ callbacks[e] /\ ~ignore_start_dp_wave[e]

Agreed(e) ==
    /\ pause_state[e] # "UNPAUSED"
    /\ ~pending_pause[e] /\ ignore_start_dp_wave[e]
    /\ callbacks[e] <=> e \notin replied

Stopped(e) == ~engines_running[e] /\ unfinished(e) = {} /\ pc[e] = "input"

\* The engines agree on a pause in one all-reduce; from then on they either all
\* run, none having replied, or have all stopped.
PauseInv ==
    pausing # "resume" =>
      /\ \A e \in Engine : pc[e] # "resume"
      /\ \A c \in Client, e \in Engine : \A m \in Elems(inputs[c][e]) : m.type # "RESUME"
      /\ \A e \in Engine, c, d \in Client :
            \A m \in Elems(inputs[c][e]), n \in Elems(inputs[d][e]) :
                m.type = "PAUSE" /\ n.type = "PAUSE" => c = d
      /\ \/ /\ pausing = "none" /\ replied = {}
            /\ \A e \in Engine : Unpaused(e) /\ ~Called(e)
         \/ /\ pausing = "pause" /\ replied = {}
            /\ \A e \in Engine : Unpaused(e) \/ (Waiting(e) /\ ~Called(e))
         \/ /\ pausing = "pause"
            /\ \A e \in Engine : Agreed(e) /\ ~Called(e)
            /\ \/ \A e \in Engine : Stopped(e)
               \/ replied = {} /\ \A e \in Engine : engines_running[e]

\* A START_DP_WAVE that will wake an engine.
Alarm(e) == \E m \in Elems(start_wave[e]) : m.wave = Wave /\ m.exclude # e

\* The last publication under way to a front end is what the coordinator knows;
\* a front end may only take engines to be running of which the coordinator is
\* about to hear the same.
Knows(c) ==
    IF updates[c] # <<>>
      THEN Latest(updates[c]) = [wave |-> coord_wave, running |-> coord_running]
      ELSE /\ client_wave[c] = coord_wave
           /\ \/ client_running[c] <=> coord_running
              \/ client_running[c] /\ to_coord[c] # <<>>

\* A coordinator that is behind will hear of the completed wave; when it takes
\* the engines to be running one of them runs or will be woken.
KnownInv ==
    /\ coord_wave < Wave => [type |-> "wave_complete", wave |-> Wave - 1] \in Elems(output[0])
    /\ \A e \in Engine : pc[e] = "resume" => ~engines_running[e]
    /\ coord_running /\ coord_wave = Wave /\ ~ignored =>
          \E e \in Engine : engines_running[e] \/ Alarm(e)
    /\ \A c \in Client : Knows(c)

IInv == TypeInv /\ WaveInv /\ RequestInv /\ PauseInv /\ KnownInv

-----------------------------------------------------------------------------
(* The channels. *)

LEMMA NoElems == Elems(<<>>) = {}
  BY DEF Elems

LEMMA ElemsType ==
  ASSUME NEW S, NEW s \in Seq(S)
  PROVE  Elems(s) \subseteq S
  BY DEF Elems

\* A message is appended to a channel.
LEMMA Appended ==
  ASSUME NEW S, NEW s \in Seq(S), NEW m \in S
  PROVE  /\ Append(s, m) \in Seq(S) /\ Append(s, m) # <<>>
         /\ Elems(Append(s, m)) = Elems(s) \cup {m}
         /\ Latest(Append(s, m)) = m
         /\ Once(s) /\ (\A n \in Elems(s) : ~Clash(n, m)) => Once(Append(s, m))
  <1>1. /\ Append(s, m) \in Seq(S) /\ Len(Append(s, m)) = Len(s) + 1
        /\ DOMAIN s = 1 .. Len(s) /\ DOMAIN Append(s, m) = 1 .. Len(s) + 1
        /\ \A i \in 1 .. Len(s) : Append(s, m)[i] = s[i]
        /\ Append(s, m)[Len(s) + 1] = m
        /\ Len(s) \in Nat
    OBVIOUS
  <1>2. Elems(Append(s, m)) = Elems(s) \cup {m}
    BY <1>1 DEF Elems
  <1>3. ASSUME Once(s), \A n \in Elems(s) : ~Clash(n, m)
        PROVE  Once(Append(s, m))
    <2> SUFFICES ASSUME NEW i \in 1 .. Len(s) + 1, NEW j \in 1 .. Len(s) + 1,
                        Clash(Append(s, m)[i], Append(s, m)[j])
                 PROVE  i = j
      BY <1>1, Zenon DEF Once
    <2>1. \A n \in Elems(s) : ~Clash(m, n)
      BY <1>3, Zenon DEF Clash
    <2>2. \A k \in 1 .. Len(s) : s[k] \in Elems(s)
      BY <1>1, Zenon DEF Elems
    <2> QED
      BY <1>1, <1>3, <2>1, <2>2 DEF Once
  <1> QED
    BY <1>1, <1>2, <1>3 DEF Latest

\* The first message of a channel is taken.
LEMMA Taken ==
  ASSUME NEW S, NEW s \in Seq(S), s # <<>>
  PROVE  /\ Head(s) \in S /\ Tail(s) \in Seq(S)
         /\ Elems(s) = Elems(Tail(s)) \cup {Head(s)}
         /\ Once(s) => Once(Tail(s)) /\ \A n \in Elems(Tail(s)) : ~Clash(Head(s), n)
  <1>1. /\ Len(s) \in Nat \ {0} /\ DOMAIN s = 1 .. Len(s)
        /\ Head(s) = s[1] /\ Head(s) \in S
        /\ Tail(s) \in Seq(S) /\ DOMAIN Tail(s) = 1 .. Len(s) - 1
        /\ \A i \in 1 .. Len(s) - 1 : Tail(s)[i] = s[i + 1]
    OBVIOUS
  <1>2. \A i \in DOMAIN s : i = 1 \/ (i - 1 \in 1 .. Len(s) - 1 /\ Tail(s)[i - 1] = s[i])
    BY <1>1
  <1>3. Elems(s) = Elems(Tail(s)) \cup {Head(s)}
    <2>1. ASSUME NEW m \in Elems(s)
          PROVE  m \in Elems(Tail(s)) \cup {Head(s)}
      <3>1. PICK i \in DOMAIN s : m = s[i]
        BY <2>1, Zenon DEF Elems
      <3> QED
        BY <1>1, <1>2, <3>1, Zenon DEF Elems
    <2>2. ASSUME NEW m \in Elems(Tail(s))
          PROVE  m \in Elems(s)
      BY <1>1, <2>2 DEF Elems
    <2>3. Head(s) \in Elems(s)
      BY <1>1 DEF Elems
    <2> QED
      BY <2>1, <2>2, <2>3, Zenon
  <1>4. ASSUME Once(s)
        PROVE  Once(Tail(s)) /\ \A n \in Elems(Tail(s)) : ~Clash(Head(s), n)
    BY <1>1, <1>4 DEF Once, Elems
  <1> QED
    BY <1>1, <1>3, <1>4, Zenon

\* The first n messages of a channel are drained.
LEMMA Drained ==
  ASSUME NEW S, NEW s \in Seq(S), NEW n \in 0 .. Len(s)
  PROVE  LET rest == SubSeq(s, n + 1, Len(s)) IN
         /\ rest \in Seq(S)
         /\ Elems(rest) \subseteq Elems(s)
         /\ n > 0 => s[n] \in S /\ s[n] \in Elems(s)
         /\ rest # <<>> => s # <<>> /\ Latest(rest) = Latest(s)
         /\ rest = <<>> => n = Len(s)
  <1> DEFINE rest == SubSeq(s, n + 1, Len(s))
  <1>1. /\ Len(s) \in Nat /\ DOMAIN s = 1 .. Len(s)
        /\ rest \in Seq(S) /\ Len(rest) = Len(s) - n /\ DOMAIN rest = 1 .. Len(s) - n
        /\ \A i \in 1 .. Len(s) - n : rest[i] = s[i + n]
    OBVIOUS
  <1> HIDE DEF rest
  <1>2. \A t \in Seq(S) : t = <<>> <=> Len(t) = 0
    OBVIOUS
  <1>3. rest # <<>> => s # <<>> /\ Latest(rest) = Latest(s)
    <2>1. ASSUME rest # <<>>
          PROVE  Len(s) > n
      BY <1>1, <1>2, <2>1
    <2>2. ASSUME Len(s) > n
          PROVE  s # <<>> /\ rest[Len(s) - n] = s[Len(s)]
      BY <1>1, <1>2, <2>2
    <2> QED
      BY <1>1, <2>1, <2>2, Zenon DEF Latest
  <1>4. n > 0 => s[n] \in S /\ s[n] \in Elems(s)
    BY <1>1 DEF Elems
  <1>5. Elems(rest) \subseteq Elems(s)
    <2>1. \A i \in 1 .. Len(s) - n : i + n \in 1 .. Len(s)
      BY <1>1
    <2> QED
      BY <1>1, <2>1, Zenon DEF Elems
  <1>6. rest = <<>> => n = Len(s)
    <2>1. rest = <<>> => Len(rest) = 0
      BY <1>1, <1>2, Zenon
    <2>2. Len(rest) = Len(s) - n /\ Len(s) \in Nat /\ n \in Nat
      BY <1>1
    <2> QED
      BY <2>1, <2>2
  <1> QED
    BY <1>1, <1>3, <1>4, <1>5, <1>6, Zenon DEF rest

\* A message is sent on one channel of several, and one is taken from it.
LEMMA SendOne ==
  ASSUME NEW D, NEW S, NEW q \in [D -> Seq(S)], NEW d \in D, NEW m \in S, NEW p,
         p = [q EXCEPT ![d] = Append(@, m)]
  PROVE  /\ p \in [D -> Seq(S)]
         /\ Elems(p[d]) = Elems(q[d]) \cup {m}
         /\ p[d] # <<>>
         /\ \A b \in D \ {d} : p[b] = q[b]
  <1>1. p[d] = Append(q[d], m) /\ \A b \in D \ {d} : p[b] = q[b]
    BY Zenon
  <1>2. Append(q[d], m) \in Seq(S) /\ Append(q[d], m) # <<>>
        /\ Elems(Append(q[d], m)) = Elems(q[d]) \cup {m}
    BY Appended
  <1> QED
    BY <1>1, <1>2, Zenon

LEMMA TakeOne ==
  ASSUME NEW D, NEW S, NEW q \in [D -> Seq(S)], NEW d \in D, q[d] # <<>>, NEW p,
         p = [q EXCEPT ![d] = Tail(@)]
  PROVE  /\ p \in [D -> Seq(S)]
         /\ Elems(q[d]) = Elems(p[d]) \cup {Head(q[d])}
         /\ Head(q[d]) \in S /\ Head(q[d]) \in Elems(q[d])
         /\ \A b \in D \ {d} : p[b] = q[b]
  <1>1. p[d] = Tail(q[d]) /\ \A b \in D \ {d} : p[b] = q[b]
    BY Zenon
  <1>2. Tail(q[d]) \in Seq(S) /\ Head(q[d]) \in S
        /\ Elems(q[d]) = Elems(Tail(q[d])) \cup {Head(q[d])}
    BY Taken, Zenon
  <1> QED
    BY <1>1, <1>2, Zenon

-----------------------------------------------------------------------------
(* What the steps have in common. *)

\* There are two engines, and what names an engine to the coordinator is not the
\* index of an engine.
LEMMA EngineFacts ==
  /\ 0 \in Engine /\ 1 \in Engine /\ Engine \subseteq Nat
  /\ \A e, f \in Engine : identity(f) # e /\ NoEngine # e
  BY SizesAssumption DEF Engine, identity, NoEngine

LEMMA PlanFacts ==
  ASSUME plan \in Plans
  PROVE  /\ plan.interval \in Nat \ {0} /\ plan.passes \in Nat \ {0} /\ plan.publish \in Nat
         /\ \A r \in Request : plan.requests[r] \subseteq Engine
  BY SizesAssumption, Zenon DEF Request

LEMMA ChannelTypes ==
  ASSUME TypeOK
  PROVE  /\ inputs \in [Client -> [Engine -> Seq(Input)]]
         /\ to_coord \in [Client -> Seq(ToCoord)]
         /\ updates \in [Client -> Seq(Update)]
         /\ start_wave \in [Engine -> Seq(StartWave)]
         /\ output \in [Engine -> Seq(Output)]
  BY Zenon DEF TypeOK, Input, ToCoord, Update, StartWave, Output

\* The same for the channels from every front end to every engine; a call goes
\* from one front end to all the engines.
LEMMA SendInput ==
  ASSUME TypeInv, NEW c \in Client, NEW e \in Engine, NEW m \in Input,
         inputs' = [inputs EXCEPT ![c][e] = Append(@, m)]
  PROVE  /\ inputs' \in [Client -> [Engine -> Seq(Input)]]
         /\ \A d \in Client, f \in Engine : \A n \in Elems(inputs'[d][f]) :
               n \in Elems(inputs[d][f]) \/ (d = c /\ f = e /\ n = m)
         /\ (\A n \in Elems(inputs[c][e]) : ~Clash(n, m)) =>
               \A d \in Client, f \in Engine : Once(inputs[d][f]) => Once(inputs'[d][f])
  <1>1. inputs \in [Client -> [Engine -> Seq(Input)]]
    BY ChannelTypes, Zenon DEF TypeInv
  <1>2. /\ inputs'[c] = [inputs[c] EXCEPT ![e] = Append(@, m)]
        /\ \A d \in Client \ {c} : inputs'[d] = inputs[d]
    BY <1>1, Zenon
  <1>3. /\ inputs'[c][e] = Append(inputs[c][e], m)
        /\ \A f \in Engine \ {e} : inputs'[c][f] = inputs[c][f]
    BY <1>1, <1>2, Zenon
  <1>4. /\ Append(inputs[c][e], m) \in Seq(Input)
        /\ Elems(Append(inputs[c][e], m)) = Elems(inputs[c][e]) \cup {m}
        /\ Once(inputs[c][e]) /\ (\A n \in Elems(inputs[c][e]) : ~Clash(n, m)) =>
              Once(Append(inputs[c][e], m))
    BY <1>1, Appended
  <1>5. inputs' \in [Client -> [Engine -> Seq(Input)]]
    BY <1>1, <1>4, Zenon
  <1> QED
    BY <1>2, <1>3, <1>4, <1>5, Zenon

LEMMA TakeInput ==
  ASSUME TypeInv, NEW c \in Client, NEW e \in Engine, inputs[c][e] # <<>>,
         inputs' = [inputs EXCEPT ![c][e] = Tail(@)]
  PROVE  /\ inputs' \in [Client -> [Engine -> Seq(Input)]]
         /\ Head(inputs[c][e]) \in Input /\ Head(inputs[c][e]) \in Elems(inputs[c][e])
         /\ \A d \in Client, f \in Engine :
               /\ Elems(inputs'[d][f]) \subseteq Elems(inputs[d][f])
               /\ Once(inputs[d][f]) => Once(inputs'[d][f])
         /\ Once(inputs[c][e]) => \A n \in Elems(inputs'[c][e]) : ~Clash(Head(inputs[c][e]), n)
  <1>1. inputs \in [Client -> [Engine -> Seq(Input)]]
    BY ChannelTypes, Zenon DEF TypeInv
  <1>2. /\ inputs'[c] = [inputs[c] EXCEPT ![e] = Tail(@)]
        /\ \A d \in Client \ {c} : inputs'[d] = inputs[d]
    BY <1>1, Zenon
  <1>3. /\ inputs'[c][e] = Tail(inputs[c][e])
        /\ \A f \in Engine \ {e} : inputs'[c][f] = inputs[c][f]
    BY <1>1, <1>2, Zenon
  <1>4. /\ Head(inputs[c][e]) \in Input /\ Tail(inputs[c][e]) \in Seq(Input)
        /\ Elems(inputs[c][e]) = Elems(Tail(inputs[c][e])) \cup {Head(inputs[c][e])}
        /\ Once(inputs[c][e]) =>
              /\ Once(Tail(inputs[c][e]))
              /\ \A n \in Elems(Tail(inputs[c][e])) : ~Clash(Head(inputs[c][e]), n)
    BY <1>1, Taken, Zenon
  <1>5. inputs' \in [Client -> [Engine -> Seq(Input)]]
    BY <1>1, <1>4, Zenon
  <1> QED
    BY <1>2, <1>3, <1>4, <1>5, Zenon

LEMMA SendCall ==
  ASSUME TypeInv, NEW c \in Client, NEW m \in Input,
         inputs' = [inputs EXCEPT ![c] = [e \in Engine |-> Append(@[e], m)]]
  PROVE  /\ inputs' \in [Client -> [Engine -> Seq(Input)]]
         /\ \A d \in Client, f \in Engine : \A n \in Elems(inputs'[d][f]) :
               n \in Elems(inputs[d][f]) \/ (d = c /\ n = m)
         /\ \A d \in Client, f \in Engine :
               (\A n \in Elems(inputs[c][f]) : ~Clash(n, m)) /\ Once(inputs[d][f]) =>
                  Once(inputs'[d][f])
  <1>1. inputs \in [Client -> [Engine -> Seq(Input)]]
    BY ChannelTypes, Zenon DEF TypeInv
  <1>2. /\ inputs'[c] = [e \in Engine |-> Append(inputs[c][e], m)]
        /\ \A d \in Client \ {c} : inputs'[d] = inputs[d]
    BY <1>1, Zenon
  <1>3. \A f \in Engine : inputs'[c][f] = Append(inputs[c][f], m)
    BY <1>2, Zenon
  <1>4. \A f \in Engine :
          /\ Append(inputs[c][f], m) \in Seq(Input)
          /\ Elems(Append(inputs[c][f], m)) = Elems(inputs[c][f]) \cup {m}
          /\ Once(inputs[c][f]) /\ (\A n \in Elems(inputs[c][f]) : ~Clash(n, m)) =>
                Once(Append(inputs[c][f], m))
    BY <1>1, Appended
  <1>5. inputs' \in [Client -> [Engine -> Seq(Input)]]
    BY <1>1, <1>4, Zenon
  <1>6. ASSUME NEW d \in Client, NEW f \in Engine
        PROVE  /\ \A n \in Elems(inputs'[d][f]) : n \in Elems(inputs[d][f]) \/ (d = c /\ n = m)
               /\ (\A n \in Elems(inputs[c][f]) : ~Clash(n, m)) /\ Once(inputs[d][f]) =>
                     Once(inputs'[d][f])
    <2>1. CASE d = c
      BY <1>3, <1>4, <2>1, Zenon
    <2>2. CASE d # c
      BY <1>2, <2>2, Zenon
    <2> QED
      BY <2>1, <2>2, Zenon
  <1> QED
    BY <1>5, <1>6, Zenon

\* An engine sends a message to the coordinator.
LEMMA SendOutput ==
  ASSUME TypeInv, NEW e \in Engine, NEW m \in Output, output' = [output EXCEPT ![e] = Append(@, m)]
  PROVE  /\ output' \in [Engine -> Seq(Output)]
         /\ m \in Elems(output'[e])
         /\ \A f \in Engine : /\ Elems(output[f]) \subseteq Elems(output'[f])
                              /\ \A n \in Elems(output'[f]) : n \in Elems(output[f]) \/ n = m
  <1>1. output \in [Engine -> Seq(Output)]
    BY ChannelTypes, Zenon DEF TypeInv
  <1>2. output'[e] = Append(output[e], m) /\ \A f \in Engine \ {e} : output'[f] = output[f]
    BY <1>1, Zenon
  <1>3. /\ Append(output[e], m) \in Seq(Output)
        /\ Elems(Append(output[e], m)) = Elems(output[e]) \cup {m}
    BY <1>1, Appended
  <1> QED
    BY <1>1, <1>2, <1>3, Zenon

\* What each part of the invariant depends on.
LEMMA WaveFrame ==
  ASSUME WaveInv,
         UNCHANGED <<current_wave, coord_wave, client_wave, updates, inputs, start_wave, output>>
  PROVE  WaveInv'
  BY Zenon DEF WaveInv, Wave

LEMMA RequestFrame ==
  ASSUME RequestInv, UNCHANGED <<scheduler, left, home, inputs, started, events, first_req>>
  PROVE  RequestInv'
  BY Zenon DEF RequestInv

LEMMA PauseFrame ==
  ASSUME PauseInv, UNCHANGED <<pausing, replied, pc, inputs, pause_state, pending_pause, callbacks,
                               ignore_start_dp_wave, engines_running, scheduler, started>>
  PROVE  PauseInv'
  <1>1. \A e \in Engine : unfinished(e)' = unfinished(e)
    BY Zenon DEF unfinished
  <1>2. \A e \in Engine :
          /\ Unpaused(e)' <=> Unpaused(e)
          /\ Waiting(e)' <=> Waiting(e)
          /\ Agreed(e)' <=> Agreed(e)
          /\ Stopped(e)' <=> Stopped(e)
          /\ Called(e)' <=> Called(e)
    BY <1>1, Zenon DEF Called, Unpaused, Waiting, Agreed, Stopped
  <1> QED
    BY <1>2, ZenonT(30) DEF PauseInv

LEMMA KnownFrame ==
  ASSUME KnownInv, UNCHANGED <<coord_wave, coord_running, current_wave, output, pc, engines_running,
                               ignored, start_wave, updates, client_wave, client_running, to_coord>>
  PROVE  KnownInv'
  BY Zenon DEF KnownInv, Wave, Alarm, Knows

\* A publication reaches every front end, and a START_DP_WAVE every engine.
LEMMA Published ==
  ASSUME TypeInv, NEW w \in Nat, NEW running \in BOOLEAN, Publish(w, running)
  PROVE  LET m == [wave |-> w, running |-> running] IN
         /\ updates' \in [Client -> Seq(Update)]
         /\ \A c \in Client : /\ Elems(updates'[c]) = Elems(updates[c]) \cup {m}
                              /\ updates'[c] # <<>> /\ Latest(updates'[c]) = m
  <1> DEFINE m == [wave |-> w, running |-> running]
  <1>1. m \in Update /\ updates \in [Client -> Seq(Update)]
    BY ChannelTypes, Zenon DEF TypeInv, Update
  <1>2. updates' = [c \in Client |-> Append(updates[c], m)]
    BY Zenon DEF Publish
  <1> HIDE DEF m
  <1>3. \A c \in Client : /\ Append(updates[c], m) \in Seq(Update) /\ Append(updates[c], m) # <<>>
                          /\ Elems(Append(updates[c], m)) = Elems(updates[c]) \cup {m}
                          /\ Latest(Append(updates[c], m)) = m
    BY <1>1, Appended
  <1> QED
    BY <1>2, <1>3, Zenon DEF m

LEMMA StartSent ==
  ASSUME TypeInv, NEW w \in Nat, NEW exclude, send_start_wave(w, exclude),
         exclude \in {NoEngine} \cup Engine \cup {identity(e) : e \in Engine}
  PROVE  /\ start_wave' \in [Engine -> Seq(StartWave)]
         /\ \A e \in Engine : Elems(start_wave'[e]) =
                              Elems(start_wave[e]) \cup {[wave |-> w, exclude |-> exclude]}
  <1> DEFINE m == [wave |-> w, exclude |-> exclude]
  <1>1. m \in StartWave /\ start_wave \in [Engine -> Seq(StartWave)]
    BY ChannelTypes, Zenon DEF TypeInv, StartWave
  <1>2. start_wave' = [e \in Engine |-> Append(start_wave[e], m)]
    BY Zenon DEF send_start_wave
  <1> HIDE DEF m
  <1>3. \A e \in Engine : /\ Append(start_wave[e], m) \in Seq(StartWave)
                          /\ Elems(Append(start_wave[e], m)) = Elems(start_wave[e]) \cup {m}
    BY <1>1, Appended
  <1> QED
    BY <1>2, <1>3, Zenon DEF m

LEMMA InitInv == Init => IInv
  <1> SUFFICES ASSUME Init
               PROVE  IInv
    BY Zenon
  <1> USE EngineFacts, PlanFacts
  <1>1. TypeInv
    <2>1. /\ \A S : first_req \in [Client -> Seq(S)]
          /\ \A S : inputs \in [Client -> [Engine -> Seq(S)]]
          /\ \A S : to_coord \in [Client -> Seq(S)] /\ updates \in [Client -> Seq(S)]
          /\ \A S : start_wave \in [Engine -> Seq(S)] /\ output \in [Engine -> Seq(S)]
      BY DEF Init
    <2>2. /\ step_counter \in [Engine -> 0 .. plan.interval - 1]
          /\ left \in [Request -> 0 .. plan.passes]
          /\ published \in 0 .. plan.publish
      BY DEF Init
    <2> QED
      BY <2>1, <2>2, Zenon DEF Init, TypeInv, TypeOK
  <1>2. /\ \A c \in Client : Elems(updates[c]) = {}
        /\ \A c \in Client, e \in Engine : Elems(inputs[c][e]) = {} /\ inputs[c][e] = <<>>
        /\ \A e \in Engine : Elems(start_wave[e]) = {} /\ Elems(output[e]) = {}
    BY NoElems, Zenon DEF Init
  <1>3. WaveInv
    BY <1>2 DEF Init, WaveInv, Wave
  <1>4. RequestInv
    BY <1>2 DEF Init, RequestInv, Once
  <1>5. PauseInv
    BY <1>2, Zenon DEF Init, PauseInv, Called, Unpaused
  <1>6. KnownInv
    BY DEF Init, KnownInv, Wave, Knows
  <1> QED
    BY <1>1, <1>3, <1>4, <1>5, <1>6, Zenon DEF IInv

-----------------------------------------------------------------------------
(* The front ends' stats tasks and the coordinator. *)

LEMMA Poll ==
  ASSUME IInv, NEW c \in Client, poll(c)
  PROVE  IInv'
  <1>1. TypeInv'
    <2>1. events' \in [Client -> SUBSET {"stats", "first_req"}]
      BY DEF IInv, TypeInv, TypeOK, poll
    <2> QED
      BY <2>1, Zenon DEF IInv, TypeInv, TypeOK, poll, pauses, coord, engines, sending, channels
  <1>2. RequestInv'
    BY DEF IInv, TypeInv, TypeOK, RequestInv, poll, engines, sending, channels
  <1>3. WaveInv' /\ PauseInv' /\ KnownInv'
    BY WaveFrame, PauseFrame, KnownFrame, Zenon DEF IInv, poll, pauses, coord, engines, sending, channels
  <1> QED
    BY <1>1, <1>2, <1>3, Zenon DEF IInv

\* A publication of the current state changes nothing that is known.
LEMMA PublishStats ==
  ASSUME IInv, publish_stats
  PROVE  IInv'
  <1> DEFINE m == [wave |-> coord_wave, running |-> coord_running]
  <1>1. coord_wave \in Nat /\ coord_running \in BOOLEAN /\ Publish(coord_wave, coord_running)
    BY Zenon DEF IInv, TypeInv, TypeOK, publish_stats
  <1>2. /\ updates' \in [Client -> Seq(Update)]
        /\ \A c \in Client : /\ Elems(updates'[c]) = Elems(updates[c]) \cup {m}
                             /\ updates'[c] # <<>> /\ Latest(updates'[c]) = m
    BY <1>1, Published, Zenon DEF IInv
  <1>3. published' \in 0 .. plan'.publish
    BY PlanFacts DEF IInv, TypeInv, TypeOK, publish_stats
  <1>4. TypeInv'
    BY <1>2, <1>3, Zenon
    DEF IInv, TypeInv, TypeOK, Update, publish_stats, pauses, clients, engines, sending
  <1>5. WaveInv'
    BY <1>1, <1>2 DEF IInv, WaveInv, Wave, publish_stats, clients, engines
  <1>6. RequestInv' /\ PauseInv'
    BY RequestFrame, PauseFrame, Zenon DEF IInv, publish_stats, pauses, clients, engines, sending
  <1>7. KnownInv'
    BY <1>2, Zenon DEF IInv, KnownInv, Wave, Alarm, Knows, publish_stats, pauses, clients, engines
  <1> QED
    BY <1>4, <1>5, <1>6, <1>7, Zenon DEF IInv

\* The stats task serves a FIRST_REQ, which believes the engines running until
\* the coordinator has been told, and takes over what is published.
LEMMA StatsUpdateTask ==
  ASSUME IInv, NEW c \in Client, stats_update_task(c)
  PROVE  IInv'
  <1>1. PICK n \in (IF "stats" \in events[c] THEN 1 ELSE 0) .. Len(updates[c]) :
          /\ updates' = [updates EXCEPT ![c] = SubSeq(@, n + 1, Len(@))]
          /\ client_wave' = IF n = 0 THEN client_wave
                            ELSE [client_wave EXCEPT ![c] = updates[c][n].wave]
          /\ client_running' = [client_running EXCEPT ![c] =
                                  IF n = 0 THEN TRUE ELSE updates[c][n].running]
    BY Zenon DEF stats_update_task
  <1>2. /\ updates \in [Client -> Seq(Update)] /\ to_coord \in [Client -> Seq(ToCoord)]
        /\ first_req \in [Client -> Seq({identity(e) : e \in Engine})]
        /\ client_wave \in [Client -> Nat] /\ client_running \in [Client -> BOOLEAN]
        /\ events \in [Client -> SUBSET {"stats", "first_req"}]
        /\ coord_wave \in Nat /\ coord_running \in BOOLEAN
    BY ChannelTypes, Zenon DEF IInv, TypeInv, TypeOK
  <1>3. n \in 0 .. Len(updates[c])
    BY <1>1, <1>2
  <1>4. LET rest == SubSeq(updates[c], n + 1, Len(updates[c])) IN
        /\ rest \in Seq(Update)
        /\ Elems(rest) \subseteq Elems(updates[c])
        /\ n > 0 => updates[c][n] \in Update /\ updates[c][n] \in Elems(updates[c])
        /\ rest # <<>> => updates[c] # <<>> /\ Latest(rest) = Latest(updates[c])
        /\ rest = <<>> => n = Len(updates[c])
    BY <1>2, <1>3, Drained
  <1>5. /\ updates' \in [Client -> Seq(Update)]
        /\ \A d \in Client : Elems(updates'[d]) \subseteq Elems(updates[d])
        /\ n > 0 => updates[c][n] \in Update /\ updates[c][n] \in Elems(updates[c])
        /\ updates'[c] # <<>> => updates[c] # <<>> /\ Latest(updates'[c]) = Latest(updates[c])
        /\ updates'[c] = <<>> => n = Len(updates[c])
        /\ \A d \in Client \ {c} : updates'[d] = updates[d]
    BY <1>1, <1>2, <1>4, Zenon
  <1>6. /\ client_wave' \in [Client -> Nat] /\ client_running' \in [Client -> BOOLEAN]
        /\ n = 0 => client_wave'[c] = client_wave[c] /\ client_running'[c]
        /\ n > 0 => /\ client_wave'[c] = updates[c][n].wave
                    /\ client_running'[c] = updates[c][n].running
        /\ \A d \in Client \ {c} : /\ client_wave'[d] = client_wave[d]
                                   /\ client_running'[d] = client_running[d]
    <2>1. n > 0 => updates[c][n].wave \in Nat /\ updates[c][n].running \in BOOLEAN
      BY <1>5, Zenon DEF Update
    <2>2. CASE n = 0
      <3>1. client_wave' = client_wave /\ client_running' = [client_running EXCEPT ![c] = TRUE]
        BY <1>1, <2>2, Zenon
      <3> QED
        BY <1>2, <2>2, <3>1
    <2>3. CASE n > 0
      <3>1. /\ client_wave' = [client_wave EXCEPT ![c] = updates[c][n].wave]
            /\ client_running' = [client_running EXCEPT ![c] = updates[c][n].running]
        <4>1. n # 0
          BY <1>3, <2>3
        <4> QED
          BY <1>1, <4>1, Zenon
      <3> QED
        BY <1>2, <2>1, <2>3, <3>1
    <2> QED
      BY <1>3, <2>2, <2>3
  <1>7. /\ first_req' \in [Client -> Seq({identity(e) : e \in Engine})]
        /\ to_coord' \in [Client -> Seq(ToCoord)]
        /\ \A d \in Client : to_coord[d] # <<>> => to_coord'[d] # <<>>
        /\ "stats" \in events[c] \/ to_coord'[c] # <<>>
        /\ \A d \in Client \ {c} : first_req'[d] = first_req[d]
    <2>1. CASE ServesFirstReq(c)
      <3>1. first_req[c] # <<>>
        BY <2>1, Zenon DEF ServesFirstReq, IInv, RequestInv
      <3>2. Head(first_req[c]) \in {identity(e) : e \in Engine}
            /\ Tail(first_req[c]) \in Seq({identity(e) : e \in Engine})
        BY <1>2, <3>1, Taken, Zenon
      <3> DEFINE m == [engine |-> Head(first_req[c]), wave |-> client_wave[c]]
      <3>3. m \in ToCoord
        BY <1>2, <3>2, Zenon DEF ToCoord
      <3>4. to_coord' = [to_coord EXCEPT ![c] = Append(@, m)]
            /\ first_req' = [first_req EXCEPT ![c] = Tail(@)]
        BY <2>1, Zenon DEF stats_update_task
      <3> HIDE DEF m
      <3>5. /\ to_coord' \in [Client -> Seq(ToCoord)]
            /\ to_coord'[c] # <<>> /\ \A d \in Client \ {c} : to_coord'[d] = to_coord[d]
        BY <1>2, <3>3, <3>4, SendOne
      <3> QED
        BY <1>2, <3>2, <3>4, <3>5, Zenon
    <2>2. CASE ~ServesFirstReq(c)
      <3>1. UNCHANGED <<first_req, to_coord>>
        BY <2>2, Zenon DEF stats_update_task
      <3>2. "stats" \in events[c]
        <4>1. events[c] # {} /\ events[c] # {"first_req"} /\ events[c] \subseteq {"stats", "first_req"}
          BY <1>2, <2>2, Zenon DEF stats_update_task, ServesFirstReq
        <4> QED
          BY <4>1, Zenon
      <3> QED
        BY <1>2, <3>1, <3>2, Zenon
    <2> QED
      BY <2>1, <2>2, Zenon
  <1>8. TypeInv'
    <2>1. events' \in [Client -> SUBSET {"stats", "first_req"}]
      BY <1>2, Zenon DEF stats_update_task
    <2> QED
      BY <1>5, <1>6, <1>7, <2>1, Zenon
      DEF IInv, TypeInv, TypeOK, Update, ToCoord, stats_update_task, pauses, coord, engines, sending
  <1>9. WaveInv'
    <2>1. n > 0 => updates[c][n].wave <= coord_wave
      BY <1>5, Zenon DEF IInv, WaveInv
    <2>2. client_wave'[c] <= coord_wave
      BY <1>3, <1>6, <2>1 DEF IInv, WaveInv
    <2>3. \A d \in Client : client_wave'[d] <= coord_wave
      BY <1>6, <2>2, Zenon DEF IInv, WaveInv
    <2> QED
      BY <1>5, <2>3, Zenon DEF IInv, WaveInv, Wave, stats_update_task, coord, engines
  <1>10. RequestInv'
    <2>1. \A d \in Client : "first_req" \in events'[d] => first_req'[d] # <<>>
      BY <1>2, <1>7, Zenon DEF IInv, RequestInv, stats_update_task
    <2> QED
      BY <2>1, ZenonT(30) DEF IInv, RequestInv, stats_update_task, engines, sending
  <1>11. PauseInv'
    BY PauseFrame, Zenon DEF IInv, stats_update_task, pauses, engines, sending
  <1>12. KnownInv'
    <2>1. UNCHANGED <<coord_wave, coord_running>> /\ Knows(c)
      BY Zenon DEF IInv, KnownInv, stats_update_task, coord
    <2>2. Knows(c)'
      <3>1. CASE updates'[c] # <<>>
        BY <1>5, <2>1, <3>1, Zenon DEF Knows
      <3>2. CASE updates'[c] = <<>> /\ n = 0
        BY <1>1, <1>2, <1>5, <1>6, <1>7, <2>1, <3>2 DEF Knows
      <3>3. CASE updates'[c] = <<>> /\ n > 0
        <4>1. updates[c] # <<>> /\ updates[c][n] = Latest(updates[c])
          BY <1>2, <1>3, <1>5, <3>3 DEF Latest
        <4> QED
          BY <1>6, <2>1, <3>3, <4>1 DEF Knows
      <3> QED
        BY <1>3, <3>1, <3>2, <3>3
    <2>3. ASSUME NEW d \in Client \ {c}
          PROVE  Knows(d)'
      <3>1. Knows(d) /\ (to_coord[d] # <<>> => to_coord'[d] # <<>>)
        BY <1>7, Zenon DEF IInv, KnownInv
      <3>2. UNCHANGED <<updates[d], client_wave[d], client_running[d]>>
        BY <1>5, <1>6, Zenon
      <3> QED
        BY <2>1, <3>1, <3>2, Zenon DEF Knows
    <2> QED
      BY <2>1, <2>2, <2>3 DEF IInv, KnownInv, Wave, Alarm, stats_update_task, pauses, coord, engines
  <1> QED
    BY <1>8, <1>9, <1>10, <1>11, <1>12, Zenon DEF IInv

\* The coordinator, told of a request to engines that it takes to be idle, wakes
\* them: the front end's name for an engine excludes none of them.
LEMMA FrontMessage ==
  ASSUME IInv, NEW c \in Client, front_message(c)
  PROVE  IInv'
  <1> DEFINE msg == Head(to_coord[c])
  <1>1. /\ to_coord \in [Client -> Seq(ToCoord)] /\ to_coord[c] # <<>>
        /\ to_coord' = [to_coord EXCEPT ![c] = Tail(@)]
        /\ coord_wave \in Nat /\ coord_running \in BOOLEAN
        /\ TypeInv
    BY ChannelTypes, Zenon DEF IInv, TypeInv, TypeOK, front_message
  <1>2. /\ to_coord' \in [Client -> Seq(ToCoord)]
        /\ msg \in ToCoord
        /\ \A d \in Client \ {c} : to_coord'[d] = to_coord[d]
    BY <1>1, TakeOne
  <1>3. UNCHANGED <<plan, pauses, clients, coord_wave, published, engines, sending, inputs, output>>
    BY Zenon DEF front_message
  <1> HIDE DEF msg
  <1>4. RequestInv' /\ PauseInv'
    BY <1>3, RequestFrame, PauseFrame, Zenon DEF IInv, pauses, clients, engines, sending
  <1>5. CASE coord_running
    <2>1. UNCHANGED <<coord_running, start_wave, updates>>
      BY <1>5, Zenon DEF front_message
    <2>2. TypeInv'
      BY <1>2, <1>3, <2>1, Zenon
      DEF IInv, TypeInv, TypeOK, ToCoord, pauses, clients, engines, sending
    <2>3. WaveInv'
      BY <1>3, <2>1, WaveFrame, Zenon DEF IInv, clients, engines
    <2>4. \A d \in Client : Knows(d)'
      BY <1>2, <1>3, <1>5, <2>1, Zenon DEF IInv, KnownInv, Knows, clients
    <2>5. KnownInv'
      BY <1>3, <2>1, <2>4, Zenon DEF IInv, KnownInv, Wave, Alarm, pauses, engines
    <2> QED
      BY <1>4, <2>2, <2>3, <2>5, Zenon DEF IInv
  <1>6. CASE ~coord_running
    <2>1. PICK x : /\ x = IF msg.wave < coord_wave THEN NoEngine ELSE msg.engine
                   /\ send_start_wave(coord_wave, x)
      BY <1>6, Zenon DEF front_message, msg
    <2>2. coord_running' = TRUE /\ Publish(coord_wave, TRUE)
      BY <1>6, Zenon DEF front_message
    <2>3. x \in {NoEngine} \cup {identity(e) : e \in Engine}
      BY <1>2, <2>1, Zenon DEF ToCoord
    <2>4. /\ updates' \in [Client -> Seq(Update)]
          /\ \A d \in Client :
                /\ Elems(updates'[d]) = Elems(updates[d]) \cup {[wave |-> coord_wave, running |-> TRUE]}
                /\ updates'[d] # <<>>
                /\ Latest(updates'[d]) = [wave |-> coord_wave, running |-> TRUE]
      BY <1>1, <2>2, Published, Zenon
    <2>5. /\ start_wave' \in [Engine -> Seq(StartWave)]
          /\ \A e \in Engine : Elems(start_wave'[e]) =
                Elems(start_wave[e]) \cup {[wave |-> coord_wave, exclude |-> x]}
      BY <1>1, <2>1, <2>3, StartSent, Zenon
    <2>6. TypeInv'
      BY <1>2, <1>3, <2>2, <2>4, <2>5, Zenon
      DEF IInv, TypeInv, TypeOK, ToCoord, Update, StartWave, pauses, clients, engines, sending
    <2>7. WaveInv'
      BY <1>1, <1>3, <2>4, <2>5 DEF IInv, WaveInv, Wave, clients, engines
    <2>8. \A d \in Client : Knows(d)'
      BY <1>3, <2>2, <2>4, Zenon DEF Knows
    <2>9. coord_wave = Wave => Alarm(0)'
      <3>1. x # 0
        BY <2>3, EngineFacts, Zenon
      <3> DEFINE m == [wave |-> coord_wave, exclude |-> x]
      <3>2. m \in Elems(start_wave'[0]) /\ m.wave = coord_wave /\ m.exclude # 0
        BY <2>5, <3>1, EngineFacts, Zenon
      <3> QED
        BY <1>3, <3>2, Zenon DEF Alarm, Wave, engines
    <2>10. KnownInv'
      BY <1>3, <2>8, <2>9, EngineFacts, Zenon DEF IInv, KnownInv, Wave, pauses, engines
    <2> QED
      BY <1>4, <2>6, <2>7, <2>10, Zenon DEF IInv
  <1> QED
    BY <1>5, <1>6, Zenon

\* The coordinator follows the engines: it is never ahead of them, and once it
\* has handled the last completed wave it has caught up.
LEMMA EngineMessage ==
  ASSUME IInv, NEW e \in Engine, engine_message(e)
  PROVE  IInv'
  <1> DEFINE msg == Head(output[e])
             last == [type |-> "wave_complete", wave |-> Wave - 1]
  <1>1. /\ output \in [Engine -> Seq(Output)] /\ output[e] # <<>>
        /\ output' = [output EXCEPT ![e] = Tail(@)]
        /\ coord_wave \in Nat /\ coord_running \in BOOLEAN /\ Wave \in Nat
        /\ TypeInv
    BY ChannelTypes, EngineFacts, Zenon DEF IInv, TypeInv, TypeOK, engine_message, Wave
  <1>2. /\ output' \in [Engine -> Seq(Output)]
        /\ Elems(output[e]) = Elems(output'[e]) \cup {msg}
        /\ msg \in Output /\ msg \in Elems(output[e])
        /\ \A f \in Engine \ {e} : output'[f] = output[f]
    <2>1. output' \in [Engine -> Seq(Output)]
      BY <1>1, TakeOne, Zenon
    <2>2. Elems(output[e]) = Elems(output'[e]) \cup {msg}
      <3>1. output'[e] = Tail(output[e]) /\ output[e] \in Seq(Output)
        BY <1>1, Zenon
      <3>2. Elems(output[e]) = Elems(Tail(output[e])) \cup {msg}
        BY <1>1, <3>1, Taken, Zenon
      <3> QED
        BY <3>1, <3>2, Zenon
    <2>3. msg \in Output
      BY <1>1, TakeOne
    <2>4. \A f \in Engine \ {e} : output'[f] = output[f]
      BY <1>1, TakeOne, Zenon
    <2> QED
      BY <2>1, <2>2, <2>3, <2>4, Zenon
  <1>3. /\ UNCHANGED <<plan, pauses, clients, published, engines, sending, inputs, to_coord>>
        /\ \/ msg.type = "wave_complete" /\ wave_complete(msg.wave)
           \/ msg.type = "start_wave" /\ start_wave_notice(msg.wave, e)
    BY Zenon DEF engine_message
  <1> HIDE DEF msg, last
  <1>4. /\ msg.wave \in Nat /\ msg.wave <= Wave
        /\ msg.type = "wave_complete" => msg.wave < Wave
    BY <1>2, Zenon DEF IInv, WaveInv, Output
  <1>5. RequestInv' /\ PauseInv'
    BY <1>3, RequestFrame, PauseFrame, Zenon DEF IInv, pauses, clients, engines, sending
  <1>6. ASSUME coord_wave < Wave, msg.type = "wave_complete" => msg.wave # Wave - 1
        PROVE  last \in Elems(output'[0])
    <2>1. last \in Elems(output[0])
      BY <1>6, Zenon DEF IInv, KnownInv, last
    <2>2. msg # last
      BY <1>6 DEF last
    <2> QED
      BY <1>2, <2>1, <2>2, EngineFacts, Zenon
  <1>7. Wave' = Wave /\ last' = last
    BY <1>3, Zenon DEF Wave, last, engines
  <1>8. CASE UNCHANGED <<coord_wave, coord_running, updates, start_wave>>
    <2>1. TypeInv'
      BY <1>2, <1>3, <1>8, Zenon
      DEF IInv, TypeInv, TypeOK, Output, pauses, clients, engines, sending
    <2>2. WaveInv'
      <3>1. \A f \in Engine : \A m \in Elems(output'[f]) : m \in Elems(output[f])
        BY <1>2, Zenon
      <3> QED
        BY <1>3, <1>8, <3>1, ZenonT(30) DEF IInv, WaveInv, Wave, clients, engines
    <2>3. coord_wave' < Wave' => last' \in Elems(output'[0])
      <3>1. msg.type = "wave_complete" /\ msg.wave = Wave - 1 => ~(coord_wave < Wave)
        <4>1. ASSUME msg.type = "wave_complete", coord_wave <= msg.wave
              PROVE  FALSE
          <5>1. coord_wave' = msg.wave + 1
            BY <1>3, <4>1, Zenon DEF wave_complete
          <5> QED
            BY <1>1, <1>4, <1>8, <4>1, <5>1
        <4> QED
          BY <1>1, <4>1
      <3> QED
        BY <1>6, <1>7, <1>8, <3>1, Zenon
    <2>4. \A c \in Client : Knows(c)'
      BY <1>3, <1>8, Zenon DEF IInv, KnownInv, Knows, clients
    <2>5. KnownInv'
      BY <1>3, <1>8, <2>3, <2>4, Zenon DEF IInv, KnownInv, Wave, Alarm, last, pauses, engines
    <2> QED
      BY <1>5, <2>1, <2>2, <2>5, Zenon DEF IInv

  <1>9. ASSUME NEW w \in Nat, NEW running \in BOOLEAN, coord_wave <= w, w <= Wave,
               coord_wave' = w, coord_running' = running, Publish(w, running),
               start_wave' \in [Engine -> Seq(StartWave)],
               \A f \in Engine : \A m \in Elems(start_wave'[f]) :
                  m \in Elems(start_wave[f]) \/ m.wave <= Wave,
               running /\ w = Wave => \E f \in Engine : Alarm(f)',
               w < Wave => last \in Elems(output'[0])
        PROVE  IInv'
    <2>1. /\ updates' \in [Client -> Seq(Update)]
          /\ \A d \in Client :
                /\ Elems(updates'[d]) = Elems(updates[d]) \cup {[wave |-> w, running |-> running]}
                /\ updates'[d] # <<>>
                /\ Latest(updates'[d]) = [wave |-> w, running |-> running]
      BY <1>1, <1>9, Published, Zenon
    <2>2. TypeInv'
      BY <1>2, <1>3, <1>9, <2>1, Zenon
      DEF IInv, TypeInv, TypeOK, Output, Update, StartWave, pauses, clients, engines, sending
    <2>3. WaveInv'
      <3>1. \A f \in Engine : \A m \in Elems(output'[f]) : m \in Elems(output[f])
        BY <1>2, Zenon
      <3>2. \A d \in Client : client_wave'[d] <= w
        <4>1. \A d \in Client : client_wave[d] \in Nat /\ client_wave[d] <= coord_wave
          BY Zenon DEF IInv, TypeInv, TypeOK, WaveInv
        <4> QED
          BY <1>1, <1>3, <1>9, <4>1 DEF clients
      <3>3. \A d \in Client : \A m \in Elems(updates'[d]) : m.wave <= w
        <4>1. \A d \in Client : updates[d] \in Seq(Update)
          BY <1>1, ChannelTypes, Zenon DEF TypeInv
        <4>2. \A d \in Client : \A m \in Elems(updates[d]) : m \in Update /\ m.wave <= coord_wave
          BY <4>1, ElemsType, Zenon DEF IInv, WaveInv
        <4>3. \A m \in Update : m.wave <= coord_wave => m.wave <= w
          BY <1>1, <1>9 DEF Update
        <4> QED
          <5>1. \A d \in Client : \A m \in Elems(updates[d]) : m.wave <= w
            BY <4>2, <4>3, Zenon
          <5> QED
            BY <1>9, <2>1, <5>1
      <3> QED
        BY <1>3, <1>7, <1>9, <3>1, <3>2, <3>3, Zenon DEF IInv, WaveInv, Wave, engines
    <2>4. \A c \in Client : Knows(c)'
      BY <1>9, <2>1, Zenon DEF Knows
    <2>5. KnownInv'
      BY <1>3, <1>7, <1>9, <2>4, Zenon DEF IInv, KnownInv, last, pauses, engines
    <2> QED
      BY <1>5, <2>2, <2>3, <2>5, Zenon DEF IInv
  <1>10. CASE msg.type = "wave_complete" /\ coord_wave <= msg.wave
    <2>1. /\ coord_wave' = msg.wave + 1 /\ coord_running' = FALSE
          /\ Publish(msg.wave + 1, FALSE) /\ start_wave' = start_wave
      BY <1>3, <1>10, Zenon DEF wave_complete
    <2>2. msg.wave + 1 \in Nat /\ coord_wave <= msg.wave + 1 /\ msg.wave + 1 <= Wave
      BY <1>1, <1>4, <1>10
    <2>3. msg.wave + 1 < Wave => last \in Elems(output'[0])
      BY <1>1, <1>4, <1>6, <1>10
    <2>4. start_wave' \in [Engine -> Seq(StartWave)]
      BY <1>1, <2>1, ChannelTypes, Zenon DEF TypeInv
    <2> QED
      BY <1>9, <2>1, <2>2, <2>3, <2>4, Zenon
  <1>11. CASE /\ msg.type = "start_wave"
              /\ msg.wave > coord_wave \/ (msg.wave = coord_wave /\ ~coord_running)
    <2>1. /\ coord_wave' = msg.wave /\ coord_running' = TRUE
          /\ Publish(msg.wave, TRUE) /\ send_start_wave(msg.wave, e)
      BY <1>3, <1>11, Zenon DEF start_wave_notice
    <2>2. /\ start_wave' \in [Engine -> Seq(StartWave)]
          /\ \A f \in Engine : Elems(start_wave'[f]) =
                Elems(start_wave[f]) \cup {[wave |-> msg.wave, exclude |-> e]}
      BY <1>1, <1>4, <2>1, StartSent, Zenon
    <2>3. msg.wave = Wave => \E f \in Engine : Alarm(f)'
      <3>1. PICK f \in Engine : f # e
        BY EngineFacts
      <3> QED
        BY <1>7, <2>2, <3>1, ZenonT(30) DEF Alarm
    <2>4. coord_wave <= msg.wave
      BY <1>1, <1>4, <1>11
    <2>5. msg.wave < Wave => last \in Elems(output'[0])
      BY <1>1, <1>4, <1>6, <1>11, <2>4
    <2>6. \A f \in Engine : \A m \in Elems(start_wave'[f]) :
            m \in Elems(start_wave[f]) \/ m.wave <= Wave
      BY <1>4, <2>2
    <2> QED
      BY <1>4, <1>9, <2>1, <2>2, <2>3, <2>4, <2>5, <2>6, Zenon
  <1> QED
    BY <1>3, <1>8, <1>10, <1>11, Zenon DEF wave_complete, start_wave_notice

-----------------------------------------------------------------------------
(* The front ends' requests and calls. *)

\* Requests and aborts on their way do not matter to a pause.
LEMMA PauseInputs ==
  ASSUME PauseInv,
         UNCHANGED <<pausing, replied, pc, pause_state, pending_pause, callbacks,
                     ignore_start_dp_wave, engines_running, scheduler, started>>,
         \A c \in Client, e \in Engine : \A m \in Elems(inputs'[c][e]) :
            m \in Elems(inputs[c][e]) \/ m.type \in {"ADD", "ABORT"}
  PROVE  PauseInv'
  <1>1. \A e \in Engine : unfinished(e)' = unfinished(e)
    BY Zenon DEF unfinished
  <1>2. \A e \in Engine :
          /\ Unpaused(e)' <=> Unpaused(e)
          /\ Waiting(e)' <=> Waiting(e)
          /\ Agreed(e)' <=> Agreed(e)
          /\ Stopped(e)' <=> Stopped(e)
    BY <1>1, Zenon DEF Unpaused, Waiting, Agreed, Stopped
  <1>3. \A c \in Client, e \in Engine : \A m \in Elems(inputs'[c][e]) :
          m.type \in {"PAUSE", "RESUME"} => m \in Elems(inputs[c][e])
    BY Zenon
  <1>4. \A e \in Engine : Called(e)' => Called(e)
    BY <1>3, Zenon DEF Called
  <1> QED
    BY <1>2, <1>3, <1>4, ZenonT(30) DEF PauseInv

LEMMA PairFacts == \A c, e, d, f : <<c, e>> # <<>> /\ (<<c, e>> = <<d, f>> => c = d /\ e = f)
  BY Zenon

\* A request that is sent has not been sent before; its wave is the one its
\* front end believes in, not ahead of the engines.
LEMMA AddRequestAsync ==
  ASSUME IInv, NEW c \in Client, NEW e \in Engine, NEW r \in Request, add_request_async(c, e, r)
  PROVE  IInv'
  <1> DEFINE m == [type |-> "ADD", req |-> r, wave |-> client_wave[c]]
  <1>1. /\ inputs \in [Client -> [Engine -> Seq(Input)]]
        /\ client_wave[c] \in Nat /\ coord_wave \in Nat /\ Wave \in Nat
        /\ inputs' = [inputs EXCEPT ![c][e] = Append(@, m)]
        /\ home \in [Request -> {<<>>} \cup (Client \X Engine)]
        /\ first_req \in [Client -> Seq({identity(f) : f \in Engine})]
    BY ChannelTypes, EngineFacts, Zenon DEF IInv, TypeInv, TypeOK, Wave, add_request_async
  <1>2. m \in Input /\ m.type = "ADD" /\ m.req = r /\ m.wave = client_wave[c]
    BY <1>1, Zenon DEF Input
  <1> HIDE DEF m
  <1>3. /\ inputs' \in [Client -> [Engine -> Seq(Input)]]
        /\ (\A n \in Elems(inputs[c][e]) : ~Clash(n, m)) =>
              \A d \in Client, f \in Engine : Once(inputs[d][f]) => Once(inputs'[d][f])
    BY <1>1, <1>2, SendInput, ZenonT(30) DEF IInv
  <1>4. \A d \in Client, f \in Engine : \A n \in Elems(inputs'[d][f]) :
          n \in Elems(inputs[d][f]) \/ (d = c /\ f = e /\ n = m)
    BY <1>1, <1>2, SendInput, Zenon DEF IInv
  <1>5. home[r] = <<>> /\ home' = [home EXCEPT ![r] = <<c, e>>]
    BY DEF add_request_async, Request
  <1>6. /\ UNCHANGED <<plan, client_wave, client_running, events, coord, engines, pauses,
                       aborted, pausing, replied, to_coord, updates, start_wave, output>>
        /\ first_req' = IF client_running[c] THEN first_req
                        ELSE [first_req EXCEPT ![c] = Append(@, identity(e))]
    BY Zenon DEF add_request_async
  <1>7. /\ first_req' \in [Client -> Seq({identity(f) : f \in Engine})]
        /\ \A d \in Client : first_req[d] # <<>> => first_req'[d] # <<>>
    <2>1. CASE client_running[c]
      BY <1>1, <1>6, <2>1, Zenon
    <2>2. CASE ~client_running[c]
      <3>1. first_req' = [first_req EXCEPT ![c] = Append(@, identity(e))]
        BY <1>6, <2>2, Zenon
      <3>2. /\ Append(first_req[c], identity(e)) \in Seq({identity(f) : f \in Engine})
            /\ Append(first_req[c], identity(e)) # <<>>
        <4>1. identity(e) \in {identity(f) : f \in Engine}
          BY Zenon
        <4> QED
          BY <1>1, <4>1, Appended, Zenon
      <3> QED
        BY <1>1, <3>1, <3>2, Zenon
    <2> QED
      BY <2>1, <2>2, Zenon
  <1>8. TypeInv'
    <2>1. home' \in [Request -> {<<>>} \cup (Client \X Engine)]
      BY <1>1, <1>5, Zenon
    <2> QED
      BY <1>3, <1>6, <1>7, <2>1, Zenon DEF IInv, TypeInv, TypeOK, Input, coord, engines, pauses
  <1>9. WaveInv'
    <2>1. client_wave[c] <= Wave
      <3>1. client_wave[c] <= coord_wave /\ coord_wave <= Wave
        BY Zenon DEF IInv, WaveInv
      <3> QED
        BY <1>1, <3>1
    <2> QED
      BY <1>2, <1>4, <1>6, <2>1, Zenon DEF IInv, WaveInv, Wave, coord, engines
  <1>10. RequestInv'
    <2>1. /\ \A n \in Elems(inputs[c][e]) : ~Clash(n, m)
          /\ r \notin started
          /\ \A f \in Engine : r \notin scheduler[f]
      <3>1. ASSUME NEW n \in Elems(inputs[c][e]), Clash(n, m)
            PROVE  FALSE
        <4>1. n.type = "ADD" /\ n.req = r
          BY <1>2, <3>1, Zenon DEF Clash
        <4>2. home[n.req] = <<c, e>>
          BY <4>1, Zenon DEF IInv, RequestInv
        <4> QED
          BY <1>5, <4>1, <4>2, PairFacts, Zenon
      <3>2. r \notin started
        BY <1>5, Zenon DEF IInv, RequestInv
      <3>3. ASSUME NEW f \in Engine, r \in scheduler[f]
            PROVE  FALSE
        <4>1. PICK d \in Client : home[r] = <<d, f>>
          BY <3>3, Zenon DEF IInv, RequestInv
        <4> QED
          BY <1>5, <4>1, PairFacts, Zenon
      <3> QED
        BY <3>1, <3>2, <3>3, Zenon
    <2>2. home'[r] = <<c, e>> /\ \A s \in Request \ {r} : home'[s] = home[s]
      BY <1>1, <1>5, Zenon
    <2>3. \A s \in Request : home[s] # <<>> => home'[s] = home[s] /\ s # r
      BY <1>5, <2>2, Zenon
    <2>4. scheduler \in [Engine -> SUBSET Request] /\ started \subseteq Request
      BY Zenon DEF IInv, TypeInv, TypeOK
    <2>5. \A f \in Engine : \A s \in scheduler'[f] :
            left'[s] > 0 /\ \E d \in Client : home'[s] = <<d, f>>
      <3>1. scheduler' = scheduler /\ left' = left
        BY <1>6, Zenon DEF engines
      <3>2. ASSUME NEW f \in Engine, NEW s \in scheduler[f]
            PROVE  left[s] > 0 /\ \E d \in Client : home'[s] = <<d, f>>
        <4>1. s \in Request
          BY <2>4, Zenon
        <4>2. PICK d \in Client : left[s] > 0 /\ home[s] = <<d, f>>
          BY Zenon DEF IInv, RequestInv
        <4> QED
          BY <2>3, <4>1, <4>2, PairFacts, Zenon
      <3> QED
        BY <3>1, <3>2, Zenon
    <2>6. \A d \in Client, f \in Engine : \A n \in Elems(inputs[d][f]) :
            n.type \in {"ADD", "ABORT"} => home'[n.req] = <<d, f>>
      <3>1. \A d \in Client, f \in Engine : \A n \in Elems(inputs[d][f]) : n \in Input
        BY <1>1, ElemsType
      <3>2. \A n \in Input : n.type \in {"ADD", "ABORT"} => n.req \in Request
        BY Zenon DEF Input
      <3> SUFFICES ASSUME NEW d \in Client, NEW f \in Engine, NEW n \in Elems(inputs[d][f]),
                          n.type \in {"ADD", "ABORT"}
                   PROVE  home'[n.req] = <<d, f>>
        BY Zenon
      <3>3. n.req \in Request /\ home[n.req] = <<d, f>>
        BY <3>1, <3>2, Zenon DEF IInv, RequestInv
      <3> QED
        BY <2>3, <3>3, PairFacts, Zenon
    <2>7. \A d \in Client, f \in Engine : \A n \in Elems(inputs'[d][f]) :
            /\ n.type \in {"ADD", "ABORT"} => home'[n.req] = <<d, f>>
            /\ n.type = "ADD" => n.req \notin scheduler'[f] /\ n.req \notin started'
      <3> SUFFICES ASSUME NEW d \in Client, NEW f \in Engine, NEW n \in Elems(inputs'[d][f])
                   PROVE  /\ n.type \in {"ADD", "ABORT"} => home'[n.req] = <<d, f>>
                          /\ n.type = "ADD" => n.req \notin scheduler[f] /\ n.req \notin started
        BY <1>6, Zenon DEF engines
      <3>1. CASE n \in Elems(inputs[d][f])
        BY <2>6, <3>1, Zenon DEF IInv, RequestInv
      <3>2. CASE d = c /\ f = e /\ n = m
        BY <1>2, <2>1, <2>2, <3>2, Zenon
      <3> QED
        BY <1>4, <3>1, <3>2, Zenon
    <2>8. \A d \in Client, f \in Engine : Once(inputs'[d][f])
      BY <1>3, <2>1, Zenon DEF IInv, RequestInv
    <2>9. \A s \in started' : home'[s] # <<>>
      BY <1>6, <2>3, <2>4, Zenon DEF IInv, RequestInv, engines
    <2> QED
      BY <1>6, <1>7, <2>5, <2>7, <2>8, <2>9, Zenon DEF IInv, RequestInv
  <1>11. PauseInv' /\ KnownInv'
    BY <1>2, <1>4, <1>6, PauseInputs, KnownFrame, Zenon DEF IInv, coord, engines, pauses
  <1> QED
    BY <1>8, <1>9, <1>10, <1>11, Zenon DEF IInv

LEMMA AbortRequestsAsync ==
  ASSUME IInv, NEW c \in Client, NEW e \in Engine, NEW r \in Request, abort_requests_async(c, e, r)
  PROVE  IInv'
  <1> DEFINE m == [type |-> "ABORT", req |-> r, wave |-> client_wave[c]]
  <1>1. /\ inputs \in [Client -> [Engine -> Seq(Input)]] /\ client_wave[c] \in Nat
        /\ inputs' = [inputs EXCEPT ![c][e] = Append(@, m)]
    BY ChannelTypes, Zenon DEF IInv, TypeInv, TypeOK, abort_requests_async
  <1>2. m \in Input /\ m.type = "ABORT" /\ m.req = r
    BY <1>1, Zenon DEF Input
  <1> HIDE DEF m
  <1>3. /\ inputs' \in [Client -> [Engine -> Seq(Input)]]
        /\ (\A n \in Elems(inputs[c][e]) : ~Clash(n, m)) =>
              \A d \in Client, f \in Engine : Once(inputs[d][f]) => Once(inputs'[d][f])
    BY <1>1, <1>2, SendInput, ZenonT(30) DEF IInv
  <1>4. \A d \in Client, f \in Engine : \A n \in Elems(inputs'[d][f]) :
          n \in Elems(inputs[d][f]) \/ (d = c /\ f = e /\ n = m)
    BY <1>1, <1>2, SendInput, Zenon DEF IInv
  <1>5. /\ r \in plan.aborts /\ aborted' = aborted \cup {r} /\ home[r] = <<c, e>>
        /\ UNCHANGED <<plan, clients, coord, engines, pauses, home, pausing,
                       replied, to_coord, updates, start_wave, output>>
    BY Zenon DEF abort_requests_async
  <1>6. TypeInv'
    <2>1. aborted' \subseteq plan'.aborts
      BY <1>5, Zenon DEF IInv, TypeInv, TypeOK
    <2> QED
      BY <1>3, <1>5, <2>1, Zenon DEF IInv, TypeInv, TypeOK, Input, clients, coord, engines, pauses
  <1>7. WaveInv'
    BY <1>2, <1>4, <1>5, Zenon DEF IInv, WaveInv, Wave, clients, coord, engines
  <1>8. RequestInv'
    <2>1. \A n \in Elems(inputs[c][e]) : ~Clash(n, m)
      BY <1>2, Zenon DEF Clash
    <2>2. \A d \in Client, f \in Engine : Once(inputs'[d][f])
      BY <1>3, <2>1, Zenon DEF IInv, RequestInv
    <2>3. ASSUME NEW d \in Client, NEW f \in Engine, NEW n \in Elems(inputs'[d][f])
          PROVE  /\ n.type \in {"ADD", "ABORT"} => home[n.req] = <<d, f>>
                 /\ n.type = "ADD" => n.req \notin scheduler[f] /\ n.req \notin started
      <3>1. CASE n \in Elems(inputs[d][f])
        BY <3>1, Zenon DEF IInv, RequestInv
      <3>2. CASE d = c /\ f = e /\ n = m
        BY <1>2, <1>5, <3>2, Zenon
      <3> QED
        BY <1>4, <3>1, <3>2, Zenon
    <2> QED
      BY <1>5, <2>2, <2>3, Zenon DEF IInv, RequestInv, clients, engines
  <1>9. PauseInv' /\ KnownInv'
    BY <1>2, <1>4, <1>5, PauseInputs, KnownFrame, Zenon DEF IInv, clients, coord, engines, pauses
  <1> QED
    BY <1>6, <1>7, <1>8, <1>9, Zenon DEF IInv

\* The one pause is sent to engines that have not heard of any.
LEMMA PauseSchedulerAsync ==
  ASSUME IInv, NEW c \in Client, NEW mode, pause_scheduler_async(c, mode)
  PROVE  IInv'
  <1> DEFINE m == [type |-> "PAUSE", mode |-> mode]
  <1>1. inputs' = [inputs EXCEPT ![c] = [e \in Engine |-> Append(@[e], m)]]
    BY Zenon DEF pause_scheduler_async
  <1>2. m \in Input /\ m.type = "PAUSE"
    BY Zenon DEF Input, pause_scheduler_async
  <1> HIDE DEF m
  <1>3. /\ inputs' \in [Client -> [Engine -> Seq(Input)]]
        /\ \A d \in Client, f \in Engine : \A n \in Elems(inputs'[d][f]) :
              n \in Elems(inputs[d][f]) \/ (d = c /\ n = m)
        /\ \A d \in Client, f \in Engine :
              (\A n \in Elems(inputs[c][f]) : ~Clash(n, m)) /\ Once(inputs[d][f]) =>
                 Once(inputs'[d][f])
    BY <1>1, <1>2, SendCall, Zenon DEF IInv
  <1>4. /\ pausing = "none" /\ pausing' = "pause"
        /\ UNCHANGED <<plan, clients, coord, engines, pauses, home, aborted,
                       replied, to_coord, updates, start_wave, output>>
    BY Zenon DEF pause_scheduler_async
  <1>5. /\ replied = {}
        /\ \A e \in Engine : Unpaused(e) /\ ~Called(e) /\ pc[e] # "resume"
        /\ \A d \in Client, e \in Engine : \A n \in Elems(inputs[d][e]) : n.type # "RESUME"
    BY <1>4, Zenon DEF IInv, PauseInv
  <1>6. \A d \in Client, e \in Engine : \A n \in Elems(inputs[d][e]) : n.type # "PAUSE"
    BY <1>5, Zenon DEF Called
  <1>7. TypeInv'
    BY <1>3, <1>4, Zenon DEF IInv, TypeInv, TypeOK, Input, clients, coord, engines, pauses
  <1>8. WaveInv'
    BY <1>2, <1>3, <1>4, ZenonT(30) DEF IInv, WaveInv, Wave, clients, coord, engines
  <1>9. RequestInv'
    <2>1. \A d \in Client, f \in Engine : Once(inputs'[d][f])
      <3>1. \A f \in Engine : \A n \in Elems(inputs[c][f]) : ~Clash(n, m)
        BY <1>2, <1>6, Zenon DEF Clash
      <3> QED
        BY <1>3, <3>1, Zenon DEF IInv, RequestInv
    <2>2. \A d \in Client, f \in Engine : \A n \in Elems(inputs'[d][f]) :
            n.type # "PAUSE" => n \in Elems(inputs[d][f])
      BY <1>2, <1>3, Zenon
    <2> QED
      BY <1>4, <2>1, <2>2, Zenon DEF IInv, RequestInv, clients, engines
  <1>10. PauseInv'
    <2>1. \A e \in Engine : Unpaused(e)'
      BY <1>4, <1>5, Zenon DEF Unpaused, pauses
    <2>2. \A d \in Client, e \in Engine : \A n \in Elems(inputs'[d][e]) :
            n.type # "RESUME" /\ (n.type = "PAUSE" => d = c)
      BY <1>2, <1>3, <1>5, <1>6, Zenon
    <2> QED
      BY <1>4, <1>5, <2>1, <2>2, Zenon DEF PauseInv, engines
  <1>11. KnownInv'
    BY <1>4, KnownFrame, Zenon DEF IInv, clients, coord, engines, pauses
  <1> QED
    BY <1>7, <1>8, <1>9, <1>10, <1>11, Zenon DEF IInv

LEMMA ResumeSchedulerAsync ==
  ASSUME IInv, NEW c \in Client, resume_scheduler_async(c)
  PROVE  IInv'
  <1> DEFINE m == [type |-> "RESUME"]
  <1>1. inputs' = [inputs EXCEPT ![c] = [e \in Engine |-> Append(@[e], m)]]
    BY Zenon DEF resume_scheduler_async
  <1>2. m \in Input /\ m.type = "RESUME"
    BY Zenon DEF Input
  <1> HIDE DEF m
  <1>3. /\ inputs' \in [Client -> [Engine -> Seq(Input)]]
        /\ \A d \in Client, f \in Engine : \A n \in Elems(inputs'[d][f]) :
              n \in Elems(inputs[d][f]) \/ (d = c /\ n = m)
        /\ \A d \in Client, f \in Engine :
              (\A n \in Elems(inputs[c][f]) : ~Clash(n, m)) /\ Once(inputs[d][f]) =>
                 Once(inputs'[d][f])
    BY <1>1, <1>2, SendCall, Zenon DEF IInv
  <1>4. /\ pausing' = "resume"
        /\ UNCHANGED <<plan, clients, coord, engines, pauses, home, aborted,
                       replied, to_coord, updates, start_wave, output>>
    BY Zenon DEF resume_scheduler_async
  <1>5. TypeInv'
    BY <1>3, <1>4, Zenon DEF IInv, TypeInv, TypeOK, Input, clients, coord, engines, pauses
  <1>6. WaveInv'
    <2>1. \A d \in Client, f \in Engine : \A n \in Elems(inputs'[d][f]) :
            n.type = "ADD" => n \in Elems(inputs[d][f])
      BY <1>2, <1>3, Zenon
    <2> QED
      BY <1>4, <2>1, Zenon DEF IInv, WaveInv, Wave, clients, coord, engines
  <1>7. RequestInv'
    <2>1. \A d \in Client, f \in Engine : Once(inputs'[d][f])
      BY <1>2, <1>3, Zenon DEF IInv, RequestInv, Clash
    <2>2. \A d \in Client, f \in Engine : \A n \in Elems(inputs'[d][f]) :
            n.type # "RESUME" => n \in Elems(inputs[d][f])
      BY <1>2, <1>3, Zenon
    <2> QED
      BY <1>4, <2>1, <2>2, Zenon DEF IInv, RequestInv, clients, engines
  <1>8. PauseInv' /\ KnownInv'
    BY <1>4, KnownFrame, Zenon DEF IInv, PauseInv, clients, coord, engines, pauses
  <1> QED
    BY <1>5, <1>6, <1>7, <1>8, Zenon DEF IInv

-----------------------------------------------------------------------------
(* The engines. *)

\* Engines that are woken, and messages to the coordinator, keep what is known.
LEMMA KnownEngines ==
  ASSUME KnownInv,
         UNCHANGED <<coord_wave, coord_running, current_wave, start_wave, updates, client_wave,
                     client_running, to_coord>>,
         ignored => ignored', Elems(output[0]) \subseteq Elems(output'[0]),
         \A e \in Engine : engines_running[e] => engines_running'[e],
         \A e \in Engine : pc'[e] = "resume" => ~engines_running'[e]
  PROVE  KnownInv'
  <1>1. \A c \in Client : Knows(c)'
    BY Zenon DEF KnownInv, Knows
  <1>2. \A e \in Engine : Alarm(e)' <=> Alarm(e)
    BY Zenon DEF Alarm, Wave
  <1>3. coord_running' /\ coord_wave' = Wave' /\ ~ignored' =>
          \E e \in Engine : engines_running'[e] \/ Alarm(e)'
    BY <1>2, Zenon DEF KnownInv, Wave
  <1>4. coord_wave' < Wave' =>
          [type |-> "wave_complete", wave |-> Wave' - 1] \in Elems(output'[0])
    BY Zenon DEF KnownInv, Wave
  <1> QED
    BY <1>1, <1>3, <1>4, Zenon DEF KnownInv

\* Requests that leave a scheduler keep what is left in order.
LEMMA RequestsLeave ==
  ASSUME RequestInv, UNCHANGED <<home, started, events, first_req>>,
         \A e \in Engine : scheduler'[e] \subseteq scheduler[e],
         \A e \in Engine : \A r \in scheduler'[e] : left'[r] > 0,
         \A c \in Client, e \in Engine : /\ Elems(inputs'[c][e]) \subseteq Elems(inputs[c][e])
                                         /\ Once(inputs[c][e]) => Once(inputs'[c][e])
  PROVE  RequestInv'
  <1>1. \A e \in Engine : \A r \in scheduler'[e] :
          left'[r] > 0 /\ \E c \in Client : home'[r] = <<c, e>>
    BY DEF RequestInv
  <1>2. \A c \in Client, e \in Engine :
          /\ Once(inputs'[c][e])
          /\ \A m \in Elems(inputs'[c][e]) :
                /\ m.type \in {"ADD", "ABORT"} => home'[m.req] = <<c, e>>
                /\ m.type = "ADD" => m.req \notin scheduler'[e] /\ m.req \notin started'
    BY Zenon DEF RequestInv
  <1> QED
    BY <1>1, <1>2, Zenon DEF RequestInv

\* A step in which no engine hears of a pause or agrees on it.
LEMMA PauseKeeps ==
  ASSUME PauseInv, UNCHANGED <<pausing, replied>>,
         pausing # "resume" => \A e \in Engine : pc'[e] # "resume",
         \A c \in Client, e \in Engine : Elems(inputs'[c][e]) \subseteq Elems(inputs[c][e]),
         \A e \in Engine : /\ Unpaused(e) => Unpaused(e)'
                           /\ Waiting(e) => Waiting(e)'
                           /\ Agreed(e) => Agreed(e)'
                           /\ Agreed(e) /\ Stopped(e) => Stopped(e)',
         \/ \A e \in Engine : engines_running[e] => engines_running'[e]
         \/ \A e \in Engine : Stopped(e)'
         \/ \E e \in Engine : ~Agreed(e)
  PROVE  PauseInv'
  <1>1. \A e \in Engine : Called(e)' => Called(e)
    BY Zenon DEF Called
  <1> SUFFICES ASSUME pausing # "resume"
               PROVE  PauseInv'
    BY Zenon DEF PauseInv
  <1>2. CASE pausing = "none" /\ replied = {} /\ \A e \in Engine : Unpaused(e) /\ ~Called(e)
    BY <1>1, <1>2, Zenon DEF PauseInv
  <1>3. CASE /\ pausing = "pause" /\ replied = {}
             /\ \A e \in Engine : Unpaused(e) \/ (Waiting(e) /\ ~Called(e))
    BY <1>1, <1>3, Zenon DEF PauseInv
  <1>4. CASE /\ pausing = "pause"
             /\ \A e \in Engine : Agreed(e) /\ ~Called(e)
             /\ \/ \A e \in Engine : Stopped(e)
                \/ replied = {} /\ \A e \in Engine : engines_running[e]
    BY <1>1, <1>4, Zenon DEF PauseInv
  <1> QED
    BY <1>2, <1>3, <1>4, Zenon DEF PauseInv

\* What all the messages of a front end to an engine have in common.
Handles(e, c, msg) ==
    /\ pc[e] = "input" /\ (callbacks[e] => has_work(e))
    /\ UNCHANGED <<plan, clients, coord, sending, to_coord, updates, start_wave>>
    /\ inputs' \in [Client -> [Engine -> Seq(Input)]]
    /\ msg \in Input /\ msg \in Elems(inputs[c][e])
    /\ \A d \in Client, f \in Engine :
          /\ Elems(inputs'[d][f]) \subseteq Elems(inputs[d][f])
          /\ Once(inputs[d][f]) => Once(inputs'[d][f])
    /\ \A n \in Elems(inputs'[c][e]) : ~Clash(msg, n)

LEMMA HandleClientRequest ==
  ASSUME IInv, NEW e \in Engine, NEW c \in Client, handle_client_request(e, c)
  PROVE  LET msg == Head(inputs[c][e]) IN
         /\ Handles(e, c, msg)
         /\ \/ msg.type = "ADD" /\ add_request(e, msg.req, msg.wave)
            \/ msg.type = "ABORT" /\ abort_requests(e, msg.req)
            \/ msg.type = "PAUSE" /\ pause_scheduler(e, msg.mode)
            \/ msg.type = "RESUME" /\ resume_scheduler(e)
  <1> DEFINE msg == Head(inputs[c][e])
  <1>1. inputs[c][e] # <<>> /\ inputs' = [inputs EXCEPT ![c][e] = Tail(@)] /\ TypeInv
    BY Zenon DEF handle_client_request, IInv
  <1>2. Once(inputs[c][e])
    BY Zenon DEF IInv, RequestInv
  <1>3. /\ inputs' \in [Client -> [Engine -> Seq(Input)]]
        /\ msg \in Input /\ msg \in Elems(inputs[c][e])
        /\ \A d \in Client, f \in Engine :
              /\ Elems(inputs'[d][f]) \subseteq Elems(inputs[d][f])
              /\ Once(inputs[d][f]) => Once(inputs'[d][f])
        /\ \A n \in Elems(inputs'[c][e]) : ~Clash(msg, n)
    BY <1>1, <1>2, TakeInput, Zenon
  <1>4. /\ \/ msg.type = "ADD" /\ add_request(e, msg.req, msg.wave)
           \/ msg.type = "ABORT" /\ abort_requests(e, msg.req)
           \/ msg.type = "PAUSE" /\ pause_scheduler(e, msg.mode)
           \/ msg.type = "RESUME" /\ resume_scheduler(e)
        /\ pc[e] = "input" /\ (callbacks[e] => has_work(e))
        /\ UNCHANGED <<plan, clients, coord, sending, to_coord, updates, start_wave>>
    BY Zenon DEF handle_client_request, takes_input
  <1> HIDE DEF msg
  <1>5. Handles(e, c, msg)
    BY <1>3, <1>4, Zenon DEF Handles
  <1> QED
    BY <1>4, <1>5, Zenon DEF msg

\* A request of an earlier wave wakes an idle engine, which tells the
\* coordinator; it adds no work to an engine that is paused.
LEMMA AddRequest ==
  ASSUME IInv, NEW e \in Engine, NEW c \in Client, NEW msg, Handles(e, c, msg),
         msg.type = "ADD", add_request(e, msg.req, msg.wave)
  PROVE  IInv'
  <1> DEFINE r == msg.req
             notice == [type |-> "start_wave", wave |-> current_wave[e]]
             wakeup == /\ msg.wave < current_wave[e] /\ ~engines_running[e]
                       /\ pause_state[e] = "UNPAUSED"
  <1>1. /\ pc[e] = "input"
        /\ UNCHANGED <<plan, clients, coord, sending, to_coord, updates, start_wave>>
        /\ inputs' \in [Client -> [Engine -> Seq(Input)]]
        /\ \A d \in Client, f \in Engine :
              /\ Elems(inputs'[d][f]) \subseteq Elems(inputs[d][f])
              /\ Once(inputs[d][f]) => Once(inputs'[d][f])
        /\ \A n \in Elems(inputs'[c][e]) : ~Clash(msg, n)
    BY Zenon DEF Handles
  <1>2. /\ r \in Request /\ msg.wave \in Nat /\ msg.wave <= current_wave[e]
        /\ home[r] = <<c, e>> /\ r \notin scheduler[e] /\ r \notin started
    BY DEF Handles, Input, IInv, WaveInv, RequestInv
  <1>3. /\ output \in [Engine -> Seq(Output)] /\ engines_running \in [Engine -> BOOLEAN]
        /\ current_wave[e] \in Nat /\ current_wave[e] = Wave
        /\ scheduler \in [Engine -> SUBSET Request] /\ left \in [Request -> 0 .. plan.passes]
        /\ plan \in Plans
    BY ChannelTypes, Zenon DEF IInv, TypeInv, TypeOK, WaveInv
  <1>4. /\ scheduler' = [scheduler EXCEPT ![e] = @ \cup {r}]
        /\ current_wave' = current_wave
        /\ UNCHANGED <<step_counter, pc, started, pauses>>
    BY <1>2, <1>3 DEF add_request
  <1>5. PICK n \in 1 .. plan.passes : left' = [left EXCEPT ![r] = n]
    BY Zenon DEF add_request
  <1>6. /\ left' \in [Request -> 0 .. plan.passes] /\ left'[r] > 0
        /\ \A s \in Request \ {r} : left'[s] = left[s]
    BY <1>2, <1>3, <1>5, PlanFacts
  <1>7. /\ output' \in [Engine -> Seq(Output)]
        /\ Elems(output[0]) \subseteq Elems(output'[0])
        /\ \A f \in Engine : \A m \in Elems(output'[f]) : m \in Elems(output[f]) \/ m = notice
        /\ engines_running' \in [Engine -> BOOLEAN]
        /\ \A f \in Engine : engines_running[f] => engines_running'[f]
        /\ \A f \in Engine : pause_state[f] # "UNPAUSED" \/ pc[f] # "input" =>
              engines_running'[f] = engines_running[f]
    <2>1. CASE wakeup
      <3>1. /\ engines_running' = [engines_running EXCEPT ![e] = TRUE]
            /\ output' = [output EXCEPT ![e] = Append(@, notice)]
        BY <2>1, Zenon DEF add_request
      <3>2. notice \in Output
        BY <1>3, Zenon DEF Output
      <3> HIDE DEF notice
      <3>3. /\ output' \in [Engine -> Seq(Output)]
            /\ \A f \in Engine : /\ Elems(output[f]) \subseteq Elems(output'[f])
                                 /\ \A m \in Elems(output'[f]) : m \in Elems(output[f]) \/ m = notice
        BY <3>1, <3>2, SendOutput, Zenon DEF IInv
      <3> QED
        BY <1>1, <1>3, <2>1, <3>1, <3>3, EngineFacts, Zenon
    <2>2. CASE ~wakeup
      BY <1>3, <2>2, Zenon DEF add_request
    <2> QED
      BY <2>1, <2>2, Zenon
  <1> HIDE DEF r, notice
  <1>8. TypeInv'
    <2>1. scheduler' \in [Engine -> SUBSET Request]
      BY <1>2, <1>3, <1>4, Zenon
    <2> QED
      BY <1>1, <1>4, <1>6, <1>7, <2>1, Zenon
      DEF IInv, TypeInv, TypeOK, Input, Output, clients, coord, sending, pauses
  <1>9. WaveInv'
    <2>1. notice.wave = Wave /\ notice.type = "start_wave"
      BY <1>3, Zenon DEF notice
    <2>2. \A f \in Engine : \A m \in Elems(output'[f]) :
            m.wave <= Wave /\ (m.type = "wave_complete" => m.wave < Wave)
      BY <1>3, <1>7, <2>1 DEF IInv, WaveInv
    <2> QED
      BY <1>1, <1>4, <2>2, Zenon DEF IInv, WaveInv, Wave, clients, coord
  <1>10. RequestInv'
    <2>1. ASSUME NEW f \in Engine, NEW s \in scheduler'[f]
          PROVE  left'[s] > 0 /\ \E d \in Client : home'[s] = <<d, f>>
      <3>1. CASE s = r
        BY <1>1, <1>2, <1>3, <1>4, <1>6, <2>1, <3>1, Zenon DEF IInv, RequestInv, sending
      <3>2. CASE s # r
        BY <1>1, <1>3, <1>4, <1>6, <2>1, <3>2, Zenon DEF IInv, RequestInv, sending
      <3> QED
        BY <3>1, <3>2, Zenon
    <2>2. ASSUME NEW d \in Client, NEW f \in Engine, NEW m \in Elems(inputs'[d][f]), m.type = "ADD"
          PROVE  m.req \notin scheduler'[f]
      <3>1. home[m.req] = <<d, f>> /\ m.req \notin scheduler[f]
        BY <1>1, <2>2, Zenon DEF IInv, RequestInv
      <3>2. m.req # r
        <4>1. ASSUME m.req = r
              PROVE  FALSE
          <5>1. d = c /\ f = e
            BY <1>2, <3>1, <4>1, PairFacts
          <5>2. ~Clash(msg, m)
            BY <1>1, <2>2, <5>1, Zenon
          <5> QED
            BY <2>2, <4>1, <5>2, Zenon DEF Clash, r
        <4> QED
          BY <4>1, Zenon
      <3> QED
        BY <1>3, <1>4, <3>1, <3>2, Zenon
    <2> QED
      BY <1>1, <1>4, <2>1, <2>2, Zenon DEF IInv, RequestInv, clients, sending
  <1>11. PauseInv'
    <2>1. \A f \in Engine : pause_state[f] # "UNPAUSED" => unfinished(f)' = unfinished(f)
      <3> SUFFICES ASSUME NEW f \in Engine, pause_state[f] # "UNPAUSED"
                   PROVE  unfinished(f)' = unfinished(f)
        BY Zenon
      <3>1. pause_state'[f] = pause_state[f] /\ pause_state[f] \in {"PAUSED_NEW", "PAUSED_ALL"}
        BY <1>4, Zenon DEF pauses, IInv, TypeInv, TypeOK
      <3>2. scheduler'[f] \cap started' = scheduler[f] \cap started
        BY <1>2, <1>3, <1>4, Zenon
      <3> QED
        BY <3>1, <3>2, Zenon DEF unfinished
    <2>2. \A f \in Engine :
            /\ Unpaused(f) => Unpaused(f)'
            /\ Waiting(f) => Waiting(f)'
            /\ Agreed(f) => Agreed(f)'
            /\ Agreed(f) /\ Stopped(f) => Stopped(f)'
      BY <1>1, <1>4, <1>7, <2>1, Zenon DEF Unpaused, Waiting, Agreed, Stopped, pauses, sending
    <2>3. pausing # "resume" => \A f \in Engine : pc'[f] # "resume"
      BY <1>4, Zenon DEF IInv, PauseInv
    <2> QED
      BY <1>1, <1>7, <2>2, <2>3, PauseKeeps, Zenon DEF IInv, sending
  <1>12. KnownInv'
    BY <1>1, <1>4, <1>7, KnownEngines, Zenon DEF IInv, KnownInv, clients, coord, pauses
  <1> QED
    BY <1>8, <1>9, <1>10, <1>11, <1>12, Zenon DEF IInv

LEMMA AbortRequests ==
  ASSUME IInv, NEW e \in Engine, NEW c \in Client, NEW msg, Handles(e, c, msg),
         msg.type = "ABORT", abort_requests(e, msg.req)
  PROVE  IInv'
  <1> DEFINE r == msg.req
  <1>1. /\ UNCHANGED <<plan, clients, coord, sending, to_coord, updates, start_wave>>
        /\ inputs' \in [Client -> [Engine -> Seq(Input)]]
        /\ \A d \in Client, f \in Engine :
              /\ Elems(inputs'[d][f]) \subseteq Elems(inputs[d][f])
              /\ Once(inputs[d][f]) => Once(inputs'[d][f])
    BY Zenon DEF Handles
  <1>2. r \in Request /\ home[r] = <<c, e>>
    BY Zenon DEF Handles, Input, IInv, RequestInv
  <1>3. /\ scheduler' = [scheduler EXCEPT ![e] = @ \ {r}]
        /\ left' = [left EXCEPT ![r] = 0]
        /\ UNCHANGED <<current_wave, engines_running, step_counter, pc, started, pauses, output>>
    BY Zenon DEF abort_requests
  <1> HIDE DEF r
  <1>4. /\ scheduler \in [Engine -> SUBSET Request] /\ left \in [Request -> 0 .. plan.passes]
        /\ plan \in Plans
    BY Zenon DEF IInv, TypeInv, TypeOK
  <1>5. /\ scheduler' \in [Engine -> SUBSET Request] /\ left' \in [Request -> 0 .. plan.passes]
        /\ \A f \in Engine : scheduler'[f] \subseteq scheduler[f]
        /\ \A f \in Engine : \A s \in scheduler'[f] : left'[s] > 0
    <2>1. scheduler' \in [Engine -> SUBSET Request] /\ left' \in [Request -> 0 .. plan.passes]
      BY <1>2, <1>3, <1>4, PlanFacts
    <2>2. \A f \in Engine : scheduler'[f] \subseteq scheduler[f] /\ r \notin scheduler'[e]
      BY <1>3, <1>4, Zenon
    <2>3. \A f \in Engine : r \in scheduler[f] => f = e
      BY <1>2, PairFacts DEF IInv, RequestInv
    <2>4. \A f \in Engine : \A s \in scheduler'[f] : s # r /\ s \in Request /\ left[s] > 0
      BY <1>4, <2>2, <2>3 DEF IInv, RequestInv
    <2>5. \A s \in Request \ {r} : left'[s] = left[s]
      BY <1>3, <1>4, Zenon
    <2> QED
      BY <2>1, <2>2, <2>4, <2>5, Zenon
  <1>6. TypeInv'
    BY <1>1, <1>3, <1>5, Zenon
    DEF IInv, TypeInv, TypeOK, Input, clients, coord, sending, pauses
  <1>7. WaveInv'
    BY <1>1, <1>3, Zenon DEF IInv, WaveInv, Wave, clients, coord
  <1>8. RequestInv'
    BY <1>1, <1>3, <1>5, RequestsLeave, Zenon DEF IInv, clients, sending
  <1>9. PauseInv'
    <2>1. ASSUME NEW f \in Engine
          PROVE  unfinished(f)' \subseteq unfinished(f)
      <3>1. /\ pause_state'[f] = pause_state[f]
            /\ pause_state[f] \in {"UNPAUSED", "PAUSED_NEW", "PAUSED_ALL"}
            /\ scheduler'[f] \subseteq scheduler[f] /\ started' = started
        BY <1>3, <1>5, Zenon DEF pauses, IInv, TypeInv, TypeOK
      <3> QED
        BY <3>1, Zenon DEF unfinished
    <2>2. \A f \in Engine : /\ Unpaused(f) => Unpaused(f)'
                            /\ Waiting(f) => Waiting(f)'
                            /\ Agreed(f) => Agreed(f)'
                            /\ Agreed(f) /\ Stopped(f) => Stopped(f)'
      BY <1>1, <1>3, <2>1, Zenon DEF Unpaused, Waiting, Agreed, Stopped, pauses, sending
    <2>3. pausing # "resume" => \A f \in Engine : pc'[f] # "resume"
      BY <1>3, Zenon DEF IInv, PauseInv
    <2> QED
      BY <1>1, <1>3, <2>2, <2>3, PauseKeeps, Zenon DEF IInv, sending
  <1>10. KnownInv'
    BY <1>1, <1>3, KnownFrame, Zenon DEF IInv, clients, coord, pauses
  <1> QED
    BY <1>6, <1>7, <1>8, <1>9, <1>10, Zenon DEF IInv

\* The engine hears of the pause, for the first and only time.
LEMMA PauseScheduler ==
  ASSUME IInv, NEW e \in Engine, NEW c \in Client, NEW msg, Handles(e, c, msg),
         msg.type = "PAUSE", pause_scheduler(e, msg.mode)
  PROVE  IInv'
  <1>1. /\ pc[e] = "input"
        /\ UNCHANGED <<plan, clients, coord, sending, to_coord, updates, start_wave>>
        /\ inputs' \in [Client -> [Engine -> Seq(Input)]]
        /\ msg \in Elems(inputs[c][e])
        /\ \A d \in Client, f \in Engine :
              /\ Elems(inputs'[d][f]) \subseteq Elems(inputs[d][f])
              /\ Once(inputs[d][f]) => Once(inputs'[d][f])
        /\ \A n \in Elems(inputs'[c][e]) : ~Clash(msg, n)
    BY Zenon DEF Handles
  <1>2. /\ scheduler \in [Engine -> SUBSET Request] /\ left \in [Request -> 0 .. plan.passes]
        /\ pause_state \in [Engine -> {"UNPAUSED", "PAUSED_NEW", "PAUSED_ALL"}]
        /\ pending_pause \in [Engine -> BOOLEAN] /\ callbacks \in [Engine -> BOOLEAN]
        /\ engines_running \in [Engine -> BOOLEAN] /\ plan \in Plans
    BY Zenon DEF IInv, TypeInv, TypeOK
  <1>3. /\ scheduler' = IF msg.mode = "abort" THEN [scheduler EXCEPT ![e] = {}] ELSE scheduler
        /\ left' = [r \in Request |-> IF msg.mode = "abort" /\ r \in scheduler[e] THEN 0 ELSE left[r]]
        /\ pause_state' = [pause_state EXCEPT
                             ![e] = IF msg.mode = "keep" THEN "PAUSED_ALL" ELSE "PAUSED_NEW"]
        /\ pending_pause' = [pending_pause EXCEPT ![e] = TRUE]
        /\ engines_running' = [engines_running EXCEPT ![e] = TRUE]
        /\ callbacks' = [callbacks EXCEPT ![e] = TRUE]
        /\ UNCHANGED <<ignore_start_dp_wave, ignored, current_wave, step_counter, pc, started, output>>
    BY Zenon DEF pause_scheduler, _pause_complete
  <1>4. /\ scheduler' \in [Engine -> SUBSET Request] /\ left' \in [Request -> 0 .. plan.passes]
        /\ \A f \in Engine : scheduler'[f] \subseteq scheduler[f]
        /\ \A f \in Engine : \A s \in scheduler'[f] : left'[s] > 0
    <2>1. \A s \in Request : left[s] \in Nat /\ 0 \in 0 .. plan.passes
      BY <1>2, PlanFacts
    <2>2. \A f \in Engine : \A s \in scheduler[f] : left[s] > 0 /\ (s \in scheduler[e] => f = e)
      BY PairFacts DEF IInv, RequestInv
    <2>3. CASE msg.mode = "abort"
      <3>1. /\ scheduler' = [scheduler EXCEPT ![e] = {}]
            /\ left' = [r \in Request |-> IF r \in scheduler[e] THEN 0 ELSE left[r]]
        BY <1>3, <2>3, Zenon
      <3> QED
        BY <1>2, <2>1, <2>2, <3>1, Zenon
    <2>4. CASE msg.mode # "abort"
      <3>1. scheduler' = scheduler /\ left' = [r \in Request |-> left[r]]
        BY <1>3, <2>4, Zenon
      <3> QED
        BY <1>2, <2>2, <3>1, Zenon
    <2> QED
      BY <2>3, <2>4, Zenon
  <1>5. /\ pause_state' \in [Engine -> {"UNPAUSED", "PAUSED_NEW", "PAUSED_ALL"}]
        /\ pending_pause' \in [Engine -> BOOLEAN] /\ callbacks' \in [Engine -> BOOLEAN]
        /\ engines_running' \in [Engine -> BOOLEAN]
        /\ pause_state'[e] # "UNPAUSED" /\ pending_pause'[e] /\ callbacks'[e] /\ engines_running'[e]
        /\ \A f \in Engine \ {e} :
              /\ pause_state'[f] = pause_state[f] /\ pending_pause'[f] = pending_pause[f]
              /\ callbacks'[f] = callbacks[f] /\ engines_running'[f] = engines_running[f]
    BY <1>2, <1>3, Zenon
  <1>6. TypeInv'
    BY <1>1, <1>3, <1>4, <1>5, Zenon
    DEF IInv, TypeInv, TypeOK, Input, clients, coord, sending
  <1>7. WaveInv'
    BY <1>1, <1>3, Zenon DEF IInv, WaveInv, Wave, clients, coord
  <1>8. RequestInv'
    BY <1>1, <1>3, <1>4, RequestsLeave, Zenon DEF IInv, clients, sending
  <1>9. PauseInv'
    <2> SUFFICES ASSUME pausing # "resume"
                 PROVE  PauseInv'
      BY <1>1, Zenon DEF PauseInv, sending
    <2>1. Called(e)
      BY <1>1, Zenon DEF Called
    <2>2. /\ pausing = "pause" /\ replied = {} /\ Unpaused(e)
          /\ \A f \in Engine : Unpaused(f) \/ (Waiting(f) /\ ~Called(f))
      BY <2>1, Zenon DEF IInv, PauseInv
    <2>3. Waiting(e)'
      BY <1>3, <1>5, <2>2, Zenon DEF Waiting, Unpaused
    <2>4. ~Called(e)'
      <3>1. ASSUME NEW d \in Client, NEW n \in Elems(inputs'[d][e]), n.type = "PAUSE"
            PROVE  FALSE
        <4>1. d = c
          BY <1>1, <3>1, Zenon DEF IInv, PauseInv
        <4> QED
          BY <1>1, <3>1, <4>1, Zenon DEF Clash
      <3> QED
        BY <3>1, Zenon DEF Called
    <2>5. \A f \in Engine \ {e} : /\ Unpaused(f) => Unpaused(f)'
                                  /\ Waiting(f) => Waiting(f)'
                                  /\ Called(f)' => Called(f)
      BY <1>1, <1>3, <1>5, ZenonT(30) DEF Unpaused, Waiting, Called
    <2>6. \A f \in Engine : Unpaused(f)' \/ (Waiting(f)' /\ ~Called(f)')
      BY <2>2, <2>3, <2>4, <2>5, Zenon
    <2>7. /\ \A f \in Engine : pc'[f] # "resume"
          /\ \A d \in Client, f \in Engine : \A m \in Elems(inputs'[d][f]) : m.type # "RESUME"
          /\ \A f \in Engine, b, d \in Client :
                \A m \in Elems(inputs'[b][f]), n \in Elems(inputs'[d][f]) :
                    m.type = "PAUSE" /\ n.type = "PAUSE" => b = d
      <3>1. /\ \A f \in Engine : pc[f] # "resume"
            /\ \A d \in Client, f \in Engine : \A m \in Elems(inputs[d][f]) : m.type # "RESUME"
            /\ \A f \in Engine, b, d \in Client :
                  \A m \in Elems(inputs[b][f]), n \in Elems(inputs[d][f]) :
                      m.type = "PAUSE" /\ n.type = "PAUSE" => b = d
        BY Zenon DEF IInv, PauseInv
      <3>2. \A d \in Client, f \in Engine : \A m \in Elems(inputs'[d][f]) : m \in Elems(inputs[d][f])
        BY <1>1, Zenon
      <3>3. \A f \in Engine : pc'[f] # "resume"
        BY <1>3, <3>1, Zenon
      <3>4. ASSUME NEW f \in Engine, NEW b \in Client, NEW d \in Client,
                   NEW m \in Elems(inputs'[b][f]), NEW n \in Elems(inputs'[d][f]),
                   m.type = "PAUSE", n.type = "PAUSE"
            PROVE  b = d
        <4>1. m \in Elems(inputs[b][f]) /\ n \in Elems(inputs[d][f])
          BY <3>2, Zenon
        <4> QED
          BY <3>1, <3>4, <4>1, Zenon
      <3>5. \A d \in Client, f \in Engine : \A m \in Elems(inputs'[d][f]) : m.type # "RESUME"
        BY <3>1, <3>2, Zenon
      <3> QED
        BY <3>3, <3>4, <3>5
    <2> QED
      BY <1>1, <2>2, <2>6, <2>7, Zenon DEF PauseInv, sending
  <1>10. KnownInv'
    <2>1. \A f \in Engine : engines_running[f] => engines_running'[f]
      BY <1>5, Zenon
    <2>2. \A f \in Engine : pc'[f] = "resume" => ~engines_running'[f]
      BY <1>1, <1>3, <1>5, Zenon DEF IInv, KnownInv
    <2> QED
      BY <1>1, <1>3, <2>1, <2>2, KnownEngines, Zenon DEF IInv, clients, coord
  <1> QED
    BY <1>6, <1>7, <1>8, <1>9, <1>10, Zenon DEF IInv

\* There is a resume only when the pause is over, and it starts no wave before
\* the barrier.
LEMMA ResumeScheduler ==
  ASSUME IInv, NEW e \in Engine, NEW c \in Client, NEW msg, Handles(e, c, msg),
         msg.type = "RESUME", resume_scheduler(e)
  PROVE  IInv'
  <1>1. /\ UNCHANGED <<plan, clients, coord, sending, to_coord, updates, start_wave>>
        /\ inputs' \in [Client -> [Engine -> Seq(Input)]]
        /\ msg \in Elems(inputs[c][e])
        /\ \A d \in Client, f \in Engine :
              /\ Elems(inputs'[d][f]) \subseteq Elems(inputs[d][f])
              /\ Once(inputs[d][f]) => Once(inputs'[d][f])
    BY Zenon DEF Handles
  <1>2. UNCHANGED <<pending_pause, callbacks, ignored, current_wave, engines_running, step_counter,
                    scheduler, left, started, output>>
    BY Zenon DEF resume_scheduler
  <1>3. /\ pause_state' \in [Engine -> {"UNPAUSED", "PAUSED_NEW", "PAUSED_ALL"}]
        /\ ignore_start_dp_wave' \in [Engine -> BOOLEAN]
        /\ pc' \in [Engine -> {"input", "forward", "sync", "resume"}]
        /\ \A f \in Engine : pc'[f] = "resume" => pc[f] = "resume" \/ ~engines_running[f]
    <2>1. /\ pause_state \in [Engine -> {"UNPAUSED", "PAUSED_NEW", "PAUSED_ALL"}]
          /\ ignore_start_dp_wave \in [Engine -> BOOLEAN]
          /\ pc \in [Engine -> {"input", "forward", "sync", "resume"}]
      BY Zenon DEF IInv, TypeInv, TypeOK
    <2> QED
      BY <2>1, Zenon DEF resume_scheduler
  <1>4. TypeInv'
    BY <1>1, <1>2, <1>3, Zenon
    DEF IInv, TypeInv, TypeOK, Input, clients, coord, sending
  <1>5. WaveInv'
    BY <1>1, <1>2, Zenon DEF IInv, WaveInv, Wave, clients, coord
  <1>6. RequestInv'
    BY <1>1, <1>2, RequestsLeave, Zenon DEF IInv, RequestInv, clients, sending
  <1>7. PauseInv'
    BY <1>1, Zenon DEF IInv, PauseInv, sending
  <1>8. KnownInv'
    <2>1. \A f \in Engine : pc'[f] = "resume" => ~engines_running'[f]
      BY <1>2, <1>3, Zenon DEF IInv, KnownInv
    <2> QED
      BY <1>1, <1>2, <2>1, KnownEngines, Zenon DEF IInv, clients, coord
  <1> QED
    BY <1>4, <1>5, <1>6, <1>7, <1>8, Zenon DEF IInv

\* A START_DP_WAVE that is taken wakes the engine, or is of a wave that is over,
\* or excludes the engine, or is ignored.
LEMMA HandleStartWave ==
  ASSUME IInv, NEW e \in Engine, handle_start_wave(e)
  PROVE  IInv'
  <1> DEFINE msg == Head(start_wave[e])
  <1>1. /\ start_wave \in [Engine -> Seq(StartWave)] /\ start_wave[e] # <<>>
        /\ start_wave' = [start_wave EXCEPT ![e] = Tail(@)]
        /\ engines_running \in [Engine -> BOOLEAN] /\ current_wave \in [Engine -> Nat]
        /\ ignored \in BOOLEAN /\ Wave \in Nat
    BY ChannelTypes, EngineFacts, Zenon DEF IInv, TypeInv, TypeOK, Wave, handle_start_wave
  <1>2. start_wave'[e] = Tail(start_wave[e]) /\ \A f \in Engine \ {e} : start_wave'[f] = start_wave[f]
    BY <1>1, Zenon
  <1>3. /\ msg \in StartWave /\ Tail(start_wave[e]) \in Seq(StartWave)
        /\ Elems(start_wave[e]) = Elems(Tail(start_wave[e])) \cup {msg}
    BY <1>1, Taken, Zenon
  <1>4. /\ start_wave' \in [Engine -> Seq(StartWave)]
        /\ \A f \in Engine : Elems(start_wave'[f]) \subseteq Elems(start_wave[f])
        /\ \A m \in Elems(start_wave[e]) : m \in Elems(start_wave'[e]) \/ m = msg
    BY <1>1, <1>2, <1>3, Zenon
  <1>5. /\ pc[e] = "input"
        /\ IF wakes(e, msg) THEN /\ current_wave' = [current_wave EXCEPT ![e] = msg.wave]
                                 /\ engines_running' = [engines_running EXCEPT ![e] = TRUE]
                            ELSE UNCHANGED <<current_wave, engines_running>>
        /\ ignored' = (ignored \/ ignore_start_dp_wave[e])
        /\ UNCHANGED <<plan, clients, coord, step_counter, scheduler, pc, left, started, pause_state,
                       pending_pause, ignore_start_dp_wave, callbacks, sending, inputs, to_coord,
                       updates, output>>
    BY Zenon DEF handle_start_wave, takes_input
  <1> HIDE DEF msg
  <1>6. /\ msg.wave \in Nat /\ msg.wave <= Wave /\ current_wave[e] = Wave
    BY <1>3, Zenon DEF IInv, WaveInv, StartWave
  <1>7. current_wave' = current_wave
    <2>1. ASSUME wakes(e, msg)
          PROVE  msg.wave = current_wave[e]
      BY <1>1, <1>6, <2>1 DEF wakes
    <2> QED
      BY <1>1, <1>5, <2>1, Zenon
  <1>8. /\ engines_running' \in [Engine -> BOOLEAN]
        /\ wakes(e, msg) => engines_running'[e]
        /\ ignore_start_dp_wave[e] => engines_running' = engines_running
        /\ \A f \in Engine : engines_running[f] => engines_running'[f]
        /\ \A f \in Engine \ {e} : engines_running'[f] = engines_running[f]
    BY <1>1, <1>5, Zenon DEF wakes
  <1>9. TypeInv'
    <2>1. ignored' \in BOOLEAN
      BY <1>5, Zenon
    <2> QED
      BY <1>4, <1>5, <1>7, <1>8, <2>1, Zenon
      DEF IInv, TypeInv, TypeOK, StartWave, clients, coord, sending
  <1>10. WaveInv'
    BY <1>4, <1>5, <1>7, Zenon DEF IInv, WaveInv, Wave, clients, coord
  <1>11. RequestInv'
    BY <1>5, RequestFrame, Zenon DEF IInv, clients, sending
  <1>12. PauseInv'
    <2>1. \A f \in Engine : unfinished(f)' = unfinished(f)
      BY <1>5, Zenon DEF unfinished
    <2>2. \A f \in Engine : /\ Unpaused(f) => Unpaused(f)'
                            /\ Waiting(f) => Waiting(f)'
                            /\ Agreed(f) => Agreed(f)'
                            /\ Agreed(f) /\ Stopped(f) => Stopped(f)'
      BY <1>5, <1>8, <2>1, Zenon DEF Unpaused, Waiting, Agreed, Stopped, sending
    <2>3. pausing # "resume" => \A f \in Engine : pc'[f] # "resume"
      BY <1>5, Zenon DEF IInv, PauseInv
    <2> QED
      BY <1>5, <1>8, <2>2, <2>3, PauseKeeps, Zenon DEF IInv, sending
  <1>13. KnownInv'
    <2>1. \A c \in Client : Knows(c)'
      BY <1>5, Zenon DEF IInv, KnownInv, Knows, clients, coord
    <2>2. \A f \in Engine : pc'[f] = "resume" => ~engines_running'[f]
      BY <1>5, <1>8, Zenon DEF IInv, KnownInv
    <2>3. ASSUME coord_running, coord_wave = Wave, ~ignored'
          PROVE  \E f \in Engine : engines_running'[f] \/ Alarm(f)'
      <3>1. ~ignored /\ ~ignore_start_dp_wave[e]
        BY <1>5, <2>3, Zenon
      <3>2. PICK f \in Engine : engines_running[f] \/ Alarm(f)
        BY <2>3, <3>1, Zenon DEF IInv, KnownInv
      <3>3. CASE engines_running[f]
        BY <1>8, <3>3, Zenon
      <3>4. CASE Alarm(f)
        <4>1. PICK m \in Elems(start_wave[f]) : m.wave = Wave /\ m.exclude # f
          BY <3>4, Zenon DEF Alarm
        <4>2. CASE m \in Elems(start_wave'[f])
          BY <1>7, <4>1, <4>2, Zenon DEF Alarm, Wave
        <4>3. CASE m \notin Elems(start_wave'[f])
          <5>1. f = e /\ m = msg
            BY <1>2, <1>4, <4>1, <4>3, Zenon
          <5>2. wakes(e, msg)
            BY <1>1, <1>6, <3>1, <4>1, <5>1, Zenon DEF wakes
          <5> QED
            BY <1>8, <5>2, Zenon
        <4> QED
          BY <4>2, <4>3, Zenon
      <3> QED
        BY <3>2, <3>3, <3>4, Zenon
    <2> QED
      BY <1>5, <1>7, <2>1, <2>2, <2>3, Zenon DEF IInv, KnownInv, Wave, coord
  <1> QED
    BY <1>9, <1>10, <1>11, <1>12, <1>13, Zenon DEF IInv

\* An engine that has not heard of the pause, or waits for the others, owes no
\* reply that it could give: only engines that have agreed and stopped reply.
LEMMA NotifyIdleStateCallbacks ==
  ASSUME IInv, NEW e \in Engine, notify_idle_state_callbacks(e)
  PROVE  IInv'
  <1>1. /\ pc[e] = "input" /\ ~has_work(e) /\ callbacks[e]
        /\ callbacks' = [callbacks EXCEPT ![e] = FALSE] /\ replied' = replied \cup {e}
        /\ UNCHANGED <<plan, clients, coord, engines, pause_state, pending_pause,
                       ignore_start_dp_wave, ignored, home, aborted, pausing, channels>>
    BY Zenon DEF notify_idle_state_callbacks
  <1>2. callbacks \in [Engine -> BOOLEAN] /\ replied \subseteq Engine
    BY Zenon DEF IInv, TypeInv, TypeOK
  <1>3. /\ callbacks' \in [Engine -> BOOLEAN] /\ replied' \subseteq Engine
        /\ ~callbacks'[e] /\ \A f \in Engine \ {e} : callbacks'[f] = callbacks[f]
    BY <1>1, <1>2, Zenon
  <1>4. TypeInv'
    BY <1>1, <1>3, Zenon DEF IInv, TypeInv, TypeOK, clients, coord, engines, channels
  <1>5. WaveInv' /\ RequestInv' /\ KnownInv'
    BY <1>1, WaveFrame, RequestFrame, KnownFrame, Zenon DEF IInv, clients, coord, engines, channels
  <1>6. PauseInv'
    <2> SUFFICES ASSUME pausing # "resume"
                 PROVE  PauseInv'
      BY <1>1, Zenon DEF PauseInv
    <2>1. ~Unpaused(e) /\ ~Waiting(e)
      BY <1>1, Zenon DEF Unpaused, Waiting, has_work
    <2>2. /\ pausing = "pause" /\ \A f \in Engine : Agreed(f) /\ ~Called(f)
          /\ \A f \in Engine : Stopped(f)
      BY <1>1, <2>1, Zenon DEF IInv, PauseInv, has_work
    <2>3. \A f \in Engine : unfinished(f)' = unfinished(f)
      BY <1>1, Zenon DEF unfinished, engines
    <2>4. \A f \in Engine : Agreed(f)' /\ Stopped(f)' /\ ~Called(f)'
      BY <1>1, <1>3, <2>2, <2>3, Zenon DEF Agreed, Stopped, Called, engines, channels
    <2> QED
      BY <1>1, <2>2, <2>4, Zenon DEF IInv, PauseInv, engines, channels
  <1> QED
    BY <1>4, <1>5, <1>6, Zenon DEF IInv

LEMMA ProcessEngineStep ==
  ASSUME IInv, NEW e \in Engine, process_engine_step(e)
  PROVE  IInv'
  <1>1. /\ pc[e] = "input" /\ has_work(e) /\ pc' = [pc EXCEPT ![e] = "forward"]
        /\ UNCHANGED <<plan, pauses, clients, coord, current_wave, engines_running, step_counter,
                       scheduler, left, started, sending, channels>>
    BY Zenon DEF process_engine_step
  <1>2. pc \in [Engine -> {"input", "forward", "sync", "resume"}]
    BY Zenon DEF IInv, TypeInv, TypeOK
  <1>3. /\ pc' \in [Engine -> {"input", "forward", "sync", "resume"}]
        /\ \A f \in Engine : pc'[f] = "resume" => pc[f] = "resume"
    BY <1>1, <1>2, Zenon
  <1>4. TypeInv'
    BY <1>1, <1>3, Zenon DEF IInv, TypeInv, TypeOK, clients, coord, pauses, sending, channels
  <1>5. WaveInv' /\ RequestInv'
    BY <1>1, WaveFrame, RequestFrame, Zenon DEF IInv, clients, coord, sending, channels
  <1>6. PauseInv'
    <2>1. \A f \in Engine : unfinished(f)' = unfinished(f)
      BY <1>1, Zenon DEF unfinished, pauses
    <2>2. \A f \in Engine : /\ Unpaused(f) => Unpaused(f)'
                            /\ Waiting(f) => Waiting(f)'
                            /\ Agreed(f) => Agreed(f)'
                            /\ Agreed(f) /\ Stopped(f) => Stopped(f)'
      <3>1. \A f \in Engine : Stopped(f) => pc'[f] = pc[f]
        BY <1>1, <1>2, Zenon DEF Stopped, has_work
      <3> QED
        BY <1>1, <2>1, <3>1, Zenon DEF Unpaused, Waiting, Agreed, Stopped, pauses, sending
    <2>3. pausing # "resume" => \A f \in Engine : pc'[f] # "resume"
      BY <1>3, Zenon DEF IInv, PauseInv
    <2> QED
      BY <1>1, <2>2, <2>3, PauseKeeps, Zenon DEF IInv, sending, channels
  <1>7. KnownInv'
    <2>1. \A f \in Engine : pc'[f] = "resume" => ~engines_running'[f]
      BY <1>1, <1>3, Zenon DEF IInv, KnownInv
    <2> QED
      BY <1>1, <2>1, KnownEngines, Zenon DEF IInv, clients, coord, pauses, channels
  <1> QED
    BY <1>4, <1>5, <1>6, <1>7, Zenon DEF IInv

LEMMA Modulo ==
  ASSUME NEW k \in Nat \ {0}, NEW n \in Nat
  PROVE  n % k \in 0 .. k - 1
  OBVIOUS

\* A pass runs requests that are in a scheduler, each of them in one; what has
\* started is no longer on its way to an engine.
LEMMA ExecuteModel ==
  ASSUME IInv, execute_model
  PROVE  IInv'
  <1> DEFINE scheduled == UNION {unfinished(e) : e \in Engine}
  <1>1. /\ scheduler \in [Engine -> SUBSET Request] /\ left \in [Request -> 0 .. plan.passes]
        /\ step_counter \in [Engine -> 0 .. plan.interval - 1]
        /\ pause_state \in [Engine -> {"UNPAUSED", "PAUSED_NEW", "PAUSED_ALL"}]
        /\ engines_running \in [Engine -> BOOLEAN] /\ plan \in Plans
        /\ started \subseteq Request
    BY Zenon DEF IInv, TypeInv, TypeOK
  <1>2. /\ \A e \in Engine : pc[e] = "forward"
        /\ left' = [r \in Request |-> IF r \in scheduled THEN left[r] - 1 ELSE left[r]]
        /\ scheduler' = [e \in Engine |-> {r \in scheduler[e] : left'[r] > 0}]
        /\ started' = started \cup scheduled
        /\ step_counter' = [e \in Engine |-> (step_counter[e] + 1) % plan.interval]
        /\ pc' = [e \in Engine |-> IF step_counter'[e] = 0 THEN "sync" ELSE "input"]
        /\ engines_running' = [e \in Engine |-> step_counter'[e] # 0 \/ engines_running[e]]
        /\ UNCHANGED <<plan, pauses, clients, coord, current_wave, sending, channels>>
    BY Zenon DEF execute_model
  <1>3. \A r \in scheduled : \E e \in Engine : r \in scheduler[e]
    <2>1. \A e \in Engine : unfinished(e) \subseteq scheduler[e]
      BY <1>1, Zenon DEF unfinished
    <2> QED
      BY <2>1, Zenon
  <1> HIDE DEF scheduled
  <1>4. \A r \in scheduled : r \in Request /\ left[r] > 0 /\ \E c \in Client, e \in Engine :
            home[r] = <<c, e>> /\ r \in scheduler[e]
    BY <1>1, <1>3 DEF IInv, RequestInv
  <1>5. left' \in [Request -> 0 .. plan.passes]
    <2>1. \A r \in Request : left[r] \in 0 .. plan.passes /\ plan.passes \in Nat
      BY <1>1, PlanFacts, Zenon
    <2>2. \A r \in Request : r \in scheduled => left[r] - 1 \in 0 .. plan.passes
      BY <1>4, <2>1
    <2> QED
      BY <1>2, <2>1, <2>2, Zenon
  <1>6. /\ scheduler' \in [Engine -> SUBSET Request]
        /\ \A e \in Engine : scheduler'[e] \subseteq scheduler[e]
        /\ \A e \in Engine : \A r \in scheduler'[e] : left'[r] > 0
    BY <1>1, <1>2, Zenon
  <1>7. step_counter' \in [Engine -> 0 .. plan.interval - 1]
    <2>1. \A e \in Engine : step_counter[e] + 1 \in Nat /\ plan.interval \in Nat \ {0}
      BY <1>1, PlanFacts
    <2>2. \A e \in Engine : (step_counter[e] + 1) % plan.interval \in 0 .. plan.interval - 1
      BY <2>1, Modulo, Zenon
    <2> QED
      BY <1>2, <2>2, Zenon
  <1>8. /\ pc' \in [Engine -> {"input", "forward", "sync", "resume"}]
        /\ \A e \in Engine : pc'[e] # "resume"
        /\ engines_running' \in [Engine -> BOOLEAN]
        /\ \A e \in Engine : engines_running[e] => engines_running'[e]
        /\ started' \subseteq Request
    BY <1>1, <1>2, <1>4, Zenon
  <1>9. TypeInv'
    BY <1>2, <1>5, <1>6, <1>7, <1>8, Zenon
    DEF IInv, TypeInv, TypeOK, clients, coord, pauses, sending, channels
  <1>10. WaveInv'
    BY <1>2, WaveFrame, Zenon DEF IInv, clients, coord, channels
  <1>11. RequestInv'
    <2>1. \A e \in Engine : \A r \in scheduler'[e] :
            left'[r] > 0 /\ \E c \in Client : home'[r] = <<c, e>>
      BY <1>2, <1>6 DEF IInv, RequestInv, sending
    <2>2. ASSUME NEW c \in Client, NEW e \in Engine, NEW m \in Elems(inputs[c][e]), m.type = "ADD"
          PROVE  m.req \notin scheduler'[e] /\ m.req \notin started'
      <3>1. home[m.req] = <<c, e>> /\ m.req \notin scheduler[e] /\ m.req \notin started
        BY <2>2, Zenon DEF IInv, RequestInv
      <3>2. m.req \notin scheduled
        BY <1>4, <3>1, PairFacts
      <3> QED
        BY <1>2, <1>6, <3>1, <3>2, Zenon
    <2>3. \A r \in started' : home'[r] # <<>>
      <3>1. \A r \in scheduled : home[r] # <<>>
        BY <1>4, PairFacts, Zenon
      <3> QED
        BY <1>2, <3>1, Zenon DEF IInv, RequestInv, sending
    <2>4. \A c \in Client, e \in Engine :
            /\ Once(inputs[c][e])
            /\ \A m \in Elems(inputs[c][e]) : m.type \in {"ADD", "ABORT"} => home[m.req] = <<c, e>>
      BY Zenon DEF IInv, RequestInv
    <2>5. \A c \in Client : "first_req" \in events[c] => first_req[c] # <<>>
      BY Zenon DEF IInv, RequestInv
    <2>6. UNCHANGED <<home, inputs, events, first_req>>
      BY <1>2, Zenon DEF clients, sending, channels
    <2>7. \A c \in Client, e \in Engine :
            /\ Once(inputs'[c][e])
            /\ \A m \in Elems(inputs'[c][e]) :
                  /\ m.type \in {"ADD", "ABORT"} => home'[m.req] = <<c, e>>
                  /\ m.type = "ADD" => m.req \notin scheduler'[e] /\ m.req \notin started'
      BY <2>2, <2>4, <2>6, Zenon
    <2>8. \A c \in Client : "first_req" \in events'[c] => first_req'[c] # <<>>
      BY <2>5, <2>6, Zenon
    <2> QED
      BY <2>1, <2>3, <2>7, <2>8, Zenon DEF RequestInv
  <1>12. PauseInv'
    <2>1. \A e \in Engine : /\ Unpaused(e) => Unpaused(e)'
                            /\ Waiting(e) => Waiting(e)'
                            /\ Agreed(e) => Agreed(e)'
                            /\ ~Stopped(e)
      BY <1>2, <1>8, Zenon DEF Unpaused, Waiting, Agreed, Stopped, pauses, sending
    <2> QED
      BY <1>2, <1>8, <2>1, PauseKeeps, Zenon DEF IInv, sending, channels
  <1>13. KnownInv'
    BY <1>2, <1>8, KnownEngines, Zenon DEF IInv, clients, coord, pauses, channels
  <1> QED
    BY <1>9, <1>10, <1>11, <1>12, <1>13, Zenon DEF IInv

\* The barrier of a resume is reached by stopped engines: no engine that ran
\* stops in it.
LEMMA ResumeBarrier ==
  ASSUME IInv, resume_barrier
  PROVE  IInv'
  <1>1. /\ \A e \in Engine : pc[e] = "resume"
        /\ pc' = [e \in Engine |-> "input"]
        /\ engines_running' = [e \in Engine |-> \E f \in Engine : unfinished(f) # {}]
        /\ UNCHANGED <<plan, pauses, clients, coord, current_wave, step_counter, scheduler, left,
                       started, sending, channels>>
    BY Zenon DEF resume_barrier
  <1>2. /\ engines_running' \in [Engine -> BOOLEAN]
        /\ pc' \in [Engine -> {"input", "forward", "sync", "resume"}]
        /\ \A e \in Engine : pc'[e] # "resume" /\ ~engines_running[e]
    BY <1>1, Zenon DEF IInv, KnownInv
  <1>3. TypeInv'
    BY <1>1, <1>2, Zenon DEF IInv, TypeInv, TypeOK, clients, coord, pauses, sending, channels
  <1>4. WaveInv' /\ RequestInv'
    BY <1>1, WaveFrame, RequestFrame, Zenon DEF IInv, clients, coord, sending, channels
  <1>5. pausing = "resume"
    BY <1>1, EngineFacts, Zenon DEF IInv, PauseInv
  <1>6. PauseInv'
    BY <1>1, <1>5, Zenon DEF PauseInv, sending
  <1>7. KnownInv'
    BY <1>1, <1>2, KnownEngines, Zenon DEF IInv, clients, coord, pauses, channels
  <1> QED
    BY <1>3, <1>4, <1>6, <1>7, Zenon DEF IInv

\* The all-reduce.  The engines agree on a pause when all of them have heard of
\* it, and a wave ends for all of them at once; rank 0 reports it.
LEMMA HasGlobalUnfinishedReqs ==
  ASSUME IInv, has_global_unfinished_reqs
  PROVE  IInv'
  <1> DEFINE work == \E e \in Engine : unfinished(e) # {}
             consensus == \A e \in Engine : pending_pause[e]
             goes_on == work \/ (~consensus /\ \E e \in Engine : pending_pause[e])
             report == [type |-> "wave_complete", wave |-> current_wave[0]]
  <1>1. /\ sync_dp_state.has_unfinished = goes_on
        /\ sync_dp_state.pause_consensus = consensus
    BY Zenon DEF sync_dp_state
  <1>2. /\ \A e \in Engine : pc[e] = "sync"
        /\ pc' = [e \in Engine |-> "input"]
        /\ engines_running' = [e \in Engine |-> goes_on]
        /\ IF goes_on THEN UNCHANGED <<current_wave, output>>
                      ELSE /\ current_wave' = [e \in Engine |-> current_wave[e] + 1]
                           /\ output' = [output EXCEPT ![0] = Append(@, report)]
        /\ IF consensus THEN /\ ignore_start_dp_wave' = [e \in Engine |-> TRUE]
                             /\ pending_pause' = [e \in Engine |-> FALSE]
                        ELSE UNCHANGED <<ignore_start_dp_wave, pending_pause>>
        /\ UNCHANGED <<plan, pause_state, callbacks, ignored, clients, coord, step_counter, scheduler,
                       left, started, sending, inputs, to_coord, updates, start_wave>>
    BY <1>1, Zenon DEF has_global_unfinished_reqs
  <1>3. /\ current_wave \in [Engine -> Nat] /\ output \in [Engine -> Seq(Output)]
        /\ ignore_start_dp_wave \in [Engine -> BOOLEAN] /\ pending_pause \in [Engine -> BOOLEAN]
        /\ coord_wave \in Nat /\ Wave \in Nat
        /\ TypeInv
    BY ChannelTypes, EngineFacts, Zenon DEF IInv, TypeInv, TypeOK, Wave
  <1>4. /\ pc' \in [Engine -> {"input", "forward", "sync", "resume"}]
        /\ \A e \in Engine : pc'[e] = "input"
        /\ engines_running' \in [Engine -> BOOLEAN]
        /\ \A e \in Engine : engines_running'[e] <=> goes_on
        /\ ignore_start_dp_wave' \in [Engine -> BOOLEAN] /\ pending_pause' \in [Engine -> BOOLEAN]
        /\ consensus => \A e \in Engine : ignore_start_dp_wave'[e] /\ ~pending_pause'[e]
        /\ ~consensus => UNCHANGED <<ignore_start_dp_wave, pending_pause>>
    <2> HIDE DEF consensus, goes_on
    <2>1. goes_on \in BOOLEAN
      BY Zenon DEF goes_on
    <2> QED
      BY <1>2, <1>3, <2>1, Zenon
  <1>5. /\ current_wave' \in [Engine -> Nat]
        /\ goes_on => UNCHANGED <<current_wave, output>>
        /\ ~goes_on => Wave' = Wave + 1 /\ \A e \in Engine : current_wave'[e] = current_wave[e] + 1
    <2> HIDE DEF goes_on
    <2> QED
      BY <1>2, <1>3, EngineFacts DEF Wave
  <1>6. /\ output' \in [Engine -> Seq(Output)]
        /\ ~goes_on => report \in Elems(output'[0])
        /\ \A e \in Engine : \A m \in Elems(output'[e]) :
              m \in Elems(output[e]) \/ (~goes_on /\ m = report)
    <2>1. report \in Output
      BY <1>3, EngineFacts, Zenon DEF Output
    <2> HIDE DEF report, goes_on
    <2>2. CASE goes_on
      BY <1>2, <1>3, <2>2, Zenon
    <2>3. CASE ~goes_on
      <3>1. output' = [output EXCEPT ![0] = Append(@, report)]
        BY <1>2, <2>3, Zenon
      <3> QED
        BY <1>3, <2>1, <2>3, <3>1, EngineFacts, SendOutput, Zenon
    <2> QED
      BY <2>2, <2>3, Zenon
  <1>7. report.type = "wave_complete" /\ report.wave = Wave
    BY Zenon DEF Wave
  <1>8. UNCHANGED <<plan, pause_state, callbacks, ignored, clients, coord, step_counter, scheduler,
                    left, started, sending, inputs, to_coord, updates, start_wave>>
    BY <1>2, Zenon
  <1>9. TypeInv'
    <2> HIDE DEF goes_on, consensus, report
    <2> QED
      BY <1>4, <1>5, <1>6, <1>8, Zenon
      DEF IInv, TypeInv, TypeOK, Output, clients, coord, sending
  <1>10. RequestInv'
    BY <1>8, RequestFrame, Zenon DEF IInv, clients, sending

  <1>11. WaveInv'
    <2> HIDE DEF goes_on, consensus, report
    <2>1. CASE goes_on
      BY <1>5, <1>8, <2>1, WaveFrame, Zenon DEF IInv, clients, coord
    <2>2. CASE ~goes_on
      <3>1. Wave' = Wave + 1 /\ \A e \in Engine : current_wave'[e] = Wave'
        BY <1>3, <1>5, <2>2, EngineFacts, Zenon DEF IInv, WaveInv
      <3>2. \A n \in Nat : n <= Wave => n <= Wave'
        BY <1>3, <3>1
      <3>3. coord_wave' <= Wave'
        BY <1>3, <1>8, <3>2, Zenon DEF IInv, WaveInv, coord
      <3>4. \A c \in Client, e \in Engine : \A m \in Elems(inputs'[c][e]) :
              m.type = "ADD" => m.wave <= Wave'
        <4>1. \A c \in Client, e \in Engine : \A m \in Elems(inputs[c][e]) : m \in Input
          BY <1>3, ChannelTypes, ElemsType DEF TypeInv
        <4>2. \A m \in Input : m.type = "ADD" => m.wave \in Nat
          BY Zenon DEF Input
        <4> QED
          BY <1>8, <3>2, <4>1, <4>2, Zenon DEF IInv, WaveInv
      <3>5. \A e \in Engine : \A m \in Elems(start_wave'[e]) : m.wave <= Wave'
        <4>1. \A e \in Engine : \A m \in Elems(start_wave[e]) : m \in StartWave
          BY <1>3, ChannelTypes, ElemsType, Zenon DEF TypeInv
        <4>2. \A m \in StartWave : m.wave \in Nat
          BY Zenon DEF StartWave
        <4> QED
          BY <1>8, <3>2, <4>1, <4>2, Zenon DEF IInv, WaveInv
      <3>6. \A e \in Engine : \A m \in Elems(output'[e]) : m.wave \in Nat /\ m.wave <= Wave
        <4>1. \A e \in Engine : \A m \in Elems(output[e]) : m \in Output
          BY <1>3, ElemsType, Zenon
        <4>2. \A m \in Output : m.wave \in Nat
          BY Zenon DEF Output
        <4> QED
          BY <1>3, <1>6, <1>7, <4>1, <4>2 DEF IInv, WaveInv
      <3>7. \A e \in Engine : \A m \in Elems(output'[e]) :
              m.wave <= Wave' /\ (m.type = "wave_complete" => m.wave < Wave')
        BY <1>3, <3>1, <3>6
      <3>8. \A c \in Client : client_wave'[c] <= coord_wave'
                              /\ \A m \in Elems(updates'[c]) : m.wave <= coord_wave'
        BY <1>8, Zenon DEF IInv, WaveInv, clients, coord
      <3> QED
        BY <3>1, <3>3, <3>4, <3>5, <3>7, <3>8, Zenon DEF WaveInv
    <2> QED
      BY <2>1, <2>2, Zenon
  <1>12. PauseInv'
    <2>1. \A e \in Engine : unfinished(e)' = unfinished(e)
      BY <1>8, Zenon DEF unfinished
    <2>2. ~goes_on => \A e \in Engine : Stopped(e)'
      BY <1>4, <2>1, Zenon DEF Stopped
    <2>3. CASE ~consensus
      <3>1. \A e \in Engine : /\ Unpaused(e) => Unpaused(e)'
                              /\ Waiting(e) => Waiting(e)'
                              /\ Agreed(e) => Agreed(e)'
                              /\ ~Stopped(e)
        BY <1>2, <1>4, <1>8, <2>3, Zenon DEF Unpaused, Waiting, Agreed, Stopped, sending
      <3> QED
        BY <1>4, <1>8, <2>2, <3>1, PauseKeeps, Zenon DEF IInv, sending
    <2>4. CASE consensus
      <3> SUFFICES ASSUME pausing # "resume"
                   PROVE  PauseInv'
        BY <1>8, Zenon DEF PauseInv, sending
      <3>1. \A e \in Engine : ~Unpaused(e) /\ ~Agreed(e)
        BY <2>4, Zenon DEF Unpaused, Agreed
      <3>2. /\ pausing = "pause" /\ replied = {}
            /\ \A e \in Engine : Waiting(e) /\ ~Called(e)
        BY <3>1, EngineFacts, Zenon DEF IInv, PauseInv
      <3>3. \A e \in Engine : Agreed(e)' /\ ~Called(e)'
        BY <1>4, <1>8, <2>4, <3>2, Zenon DEF Waiting, Agreed, Called, sending
      <3>4. (\A e \in Engine : Stopped(e)') \/ (\A e \in Engine : engines_running'[e])
        BY <1>4, <2>2, Zenon
      <3> QED
        BY <1>4, <1>8, <3>2, <3>3, <3>4, Zenon DEF IInv, PauseInv, sending
    <2> QED
      BY <2>3, <2>4, Zenon
  <1>13. KnownInv'
    <2> HIDE DEF goes_on, consensus, report
    <2>1. CASE goes_on
      BY <1>4, <1>5, <1>8, <2>1, KnownEngines, Zenon DEF IInv, clients, coord
    <2>2. CASE ~goes_on
      <3>1. Wave' = Wave + 1 /\ coord_wave' = coord_wave /\ coord_wave <= Wave
        BY <1>5, <1>8, <2>2, Zenon DEF IInv, WaveInv, coord
      <3>2. [type |-> "wave_complete", wave |-> Wave' - 1] = report
        BY <1>3, <3>1 DEF report, Wave
      <3>3. \A c \in Client : Knows(c)'
        BY <1>8, Zenon DEF IInv, KnownInv, Knows, clients, coord
      <3>4. coord_wave' # Wave'
        BY <1>3, <3>1
      <3> QED
        BY <1>4, <1>6, <2>2, <3>2, <3>3, <3>4, Zenon DEF KnownInv
    <2> QED
      BY <2>1, <2>2, Zenon
  <1> QED
    BY <1>9, <1>10, <1>11, <1>12, <1>13, Zenon DEF IInv

-----------------------------------------------------------------------------
(* The theorems. *)

LEMMA NextInv == IInv /\ [Next]_vars => IInv'
  <1> SUFFICES ASSUME IInv, [Next]_vars
               PROVE  IInv'
    BY Zenon
  <1>1. CASE UNCHANGED vars
    <2>1. TypeInv'
      BY <1>1, Zenon
      DEF IInv, TypeInv, TypeOK, vars, clients, coord, engines, pauses, sending, channels
    <2> QED
      BY <1>1, <2>1, WaveFrame, RequestFrame, PauseFrame, KnownFrame, Zenon
      DEF IInv, vars, clients, coord, engines, pauses, sending, channels
  <1>2. CASE FrontEnd
    BY <1>2, AddRequestAsync, AbortRequestsAsync, PauseSchedulerAsync, ResumeSchedulerAsync, Zenon
    DEF FrontEnd
  <1>3. ASSUME NEW e \in Engine, NEW c \in Client, handle_client_request(e, c)
        PROVE  IInv'
    BY <1>3, HandleClientRequest, AddRequest, AbortRequests, PauseScheduler, ResumeScheduler, Zenon
  <1>4. CASE Messages
    BY <1>3, <1>4, Poll, StatsUpdateTask, FrontMessage, EngineMessage, HandleStartWave, Zenon DEF Messages
  <1>5. CASE publish_stats
    BY <1>5, PublishStats, Zenon
  <1>6. CASE BusyLoop
    BY <1>6, NotifyIdleStateCallbacks, ProcessEngineStep, ExecuteModel, HasGlobalUnfinishedReqs,
       ResumeBarrier, Zenon
    DEF BusyLoop
  <1> QED
    BY <1>1, <1>2, <1>4, <1>5, <1>6, Zenon DEF Next

LEMMA InvHolds == Spec => []IInv
  BY InitInv, NextInv, PTL DEF Spec

\* The engines count the same wave, whichever messages have reached which of
\* them, and the coordinator and the front ends are never ahead of them.
THEOREM EnginesShareTheWave == Spec => []OneWave
  <1>1. IInv => OneWave
    BY Zenon DEF IInv, TypeInv, WaveInv, OneWave, Wave
  <1> QED
    BY <1>1, InvHolds, PTL

\* From the last reply to a pause until the resume no engine runs, whatever
\* requests and START_DP_WAVE messages still arrive.
THEOREM PausedEnginesStay == Spec => []PauseHolds
  <1>1. IInv => PauseHolds
    <2> SUFFICES ASSUME IInv, Paused
                 PROVE  \A e \in Engine : pc[e] = "input" /\ ~has_work(e)
      BY Zenon DEF PauseHolds
    <2>1. pausing = "pause" /\ replied # {}
      BY EngineFacts, Zenon DEF Paused
    <2> QED
      BY <2>1, Zenon DEF IInv, PauseInv, Stopped, has_work
  <1> QED
    BY <1>1, InvHolds, PTL

\* When no message is in flight and no engine has work, and no START_DP_WAVE was
\* ignored, the coordinator and the front ends know that the engines are idle,
\* and in which wave.
THEOREM RestIsKnown == Spec => []IdleIsKnown
  <1>1. IInv => IdleIsKnown
    <2> SUFFICES ASSUME IInv, Quiescent, ~ignored
                 PROVE  /\ ~coord_running /\ coord_wave = Wave
                        /\ \A c \in Client : ~client_running[c] /\ client_wave[c] = coord_wave
      BY Zenon DEF IdleIsKnown, Wave
    <2>1. \A e \in Engine : ~engines_running[e] /\ ~Alarm(e) /\ Elems(output[e]) = {}
      BY NoElems, Zenon DEF Quiescent, has_work, Alarm
    <2>2. coord_wave \in Nat /\ Wave \in Nat /\ coord_wave <= Wave /\ ~(coord_wave < Wave)
      BY <2>1, EngineFacts, Zenon DEF IInv, TypeInv, TypeOK, WaveInv, KnownInv, Wave
    <2>3. coord_wave = Wave /\ ~coord_running
      BY <2>1, <2>2 DEF IInv, KnownInv
    <2>4. \A c \in Client : ~client_running[c] /\ client_wave[c] = coord_wave
      BY <2>3, Zenon DEF IInv, KnownInv, Knows, Quiescent
    <2> QED
      BY <2>3, <2>4, Zenon
  <1> QED
    BY <1>1, InvHolds, PTL

=============================================================================
