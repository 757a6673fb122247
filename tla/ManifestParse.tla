---------------------------- MODULE ManifestParse ----------------------------
(***************************************************************************)
(* How main (quic_simple_client_bin.cc 822-1022) turns the MPD into what   *)
(* the ABRs are built from: the adaptation set keyed by kbps, the          *)
(* ascending bitrates, avg_ssims, and one SSIM map per segment, with the   *)
(* quality "hack" and the optional no_drop reshaping.                      *)
(*                                                                         *)
(* The XML reader and the string parsing are abstracted: the manifest is a *)
(* sequence of already parsed elements, consumed one per step as           *)
(* xml_reader.Read() returns them.  SSIM values are integers (hundredths), *)
(* so two equal parsed doubles are two equal keys.                         *)
(***************************************************************************)
EXTENDS Integers, Sequences, FiniteSets

CONSTANTS
  Manifests,   \* the parsed element sequences an MPD can give
  NoDrop       \* feature_map contains "no_drop"

VARIABLES
  manifest,         \* the MPD of this run
  pos,              \* the element xml_reader.Read() returns next
  adaptation_set,   \* adaptationSet: kbps -> [base_url, segments]
  current_repr_bw,  \* current_repr_bw
  avg_ssims,        \* avg_ssims
  ssim_map,         \* ssim_map: one [ssim -> SSIMBasedQuality] per segment
  segment_duration, \* segment_duration, ms
  bitrates,         \* bitrates, filled once the MPD is read
  status,           \* "parsing", "done", or "exit1"
  repr_avg          \* history: the avgSSIM each kbps was declared with

vars == <<manifest, pos, adaptation_set, current_repr_bw, avg_ssims, ssim_map,
          segment_duration, bitrates, status, repr_avg>>

\* a value-initialised SSIMBasedQuality (abr.h 12-17)
NoEntry == [size |-> 0, reliable_size |-> 0, quality |-> 0, required_frames |-> 0]

Elem == manifest[pos]

\* f with key k set to v, the key added if new (std::map operator[])
Put(f, k, v) == [x \in DOMAIN f \cup {k} |-> IF x = k THEN v ELSE f[x]]

Init ==
  /\ manifest \in Manifests
  /\ pos = 1
  /\ adaptation_set = <<>>
  /\ current_repr_bw = 0
  /\ avg_ssims = <<>>
  /\ ssim_map = <<>>
  /\ segment_duration = 0
  /\ bitrates = <<>>
  /\ status = "parsing"
  /\ repr_avg = <<>>

Reading == status = "parsing" /\ pos <= Len(manifest)

\* lines 837-857: avgSSIM is appended, bandwidth / 1000 becomes the key;
\* insert() leaves an existing key's representation as it was
Representation ==
  /\ Reading /\ Elem.kind = "Representation"
  /\ LET bw == Elem.bandwidth \div 1000
     IN  /\ avg_ssims' = Append(avg_ssims, Elem.avg_ssim)
         /\ current_repr_bw' = bw
         /\ adaptation_set' =
              IF bw \in DOMAIN adaptation_set THEN adaptation_set
              ELSE Put(adaptation_set, bw, [base_url |-> "", segments |-> 0])
         /\ repr_avg' = Put(repr_avg, bw, Elem.avg_ssim)
  /\ pos' = pos + 1
  /\ UNCHANGED <<manifest, ssim_map, segment_duration, bitrates, status>>

\* lines 859-864
BaseURL ==
  /\ Reading /\ Elem.kind = "BaseURL"
  /\ adaptation_set' = [adaptation_set EXCEPT ![current_repr_bw].base_url = Elem.name]
  /\ pos' = pos + 1
  /\ UNCHANGED <<manifest, current_repr_bw, avg_ssims, ssim_map, segment_duration,
                 bitrates, status, repr_avg>>

\* lines 866-881: the initialisation segment is segment 0
Initialization ==
  /\ Reading /\ Elem.kind = "Initialization"
  /\ adaptation_set' = [adaptation_set EXCEPT ![current_repr_bw].segments = @ + 1]
  /\ pos' = pos + 1
  /\ UNCHANGED <<manifest, current_repr_bw, avg_ssims, ssim_map, segment_duration,
                 bitrates, status, repr_avg>>

\* lines 882-889: integer division, then milliseconds
SegmentList ==
  /\ Reading /\ Elem.kind = "SegmentList"
  /\ segment_duration' = (Elem.duration \div Elem.timescale) * 1000
  /\ pos' = pos + 1
  /\ UNCHANGED <<manifest, current_repr_bw, avg_ssims, ssim_map, adaptation_set,
                 bitrates, status, repr_avg>>

\* the entries one SegmentURL's ssims attribute adds to map m (line 947):
\* size + reliableSize, reliableSize, the kbps as a placeholder quality
AddSsims(m, ssims, rel_size) ==
  [k \in DOMAIN m \cup {v.ssim : v \in ssims} |->
     IF \E v \in ssims : v.ssim = k
     THEN LET v == CHOOSE v \in ssims : v.ssim = k
          IN  [size |-> v.size + rel_size, reliable_size |-> rel_size,
               quality |-> current_repr_bw, required_frames |-> v.frames]
     ELSE m[k]]

\* lines 890-960: the segment's SSIM map is ssim_map[curr], curr the index
\* of the segment in its representation (the initialisation segment is 0);
\* a map that is not the next one to create is an exit(1)
SegmentURL ==
  /\ Reading /\ Elem.kind = "SegmentURL"
  /\ LET curr == adaptation_set[current_repr_bw].segments - 1
         ssims == Elem.ssims
     IN  IF ssims = {} \/ Len(ssim_map) >= curr + 1
         THEN /\ ssim_map' = IF ssims = {} THEN ssim_map
                             ELSE [ssim_map EXCEPT ![curr + 1] =
                                     AddSsims(@, ssims, Elem.reliable_size)]
              /\ adaptation_set' = [adaptation_set EXCEPT ![current_repr_bw].segments = @ + 1]
              /\ pos' = pos + 1
              /\ UNCHANGED status
         ELSE IF Len(ssim_map) + 1 # curr + 1
         THEN /\ status' = "exit1"
              /\ UNCHANGED <<ssim_map, adaptation_set, pos>>
         ELSE /\ ssim_map' = Append(ssim_map, AddSsims(<<>>, ssims, Elem.reliable_size))
              /\ adaptation_set' = [adaptation_set EXCEPT ![current_repr_bw].segments = @ + 1]
              /\ pos' = pos + 1
              /\ UNCHANGED status
  /\ UNCHANGED <<manifest, current_repr_bw, avg_ssims, segment_duration, bitrates,
                 repr_avg>>

\* the 0-based index std::distance(begin, find(...)) gives for bw
IndexOf(seq, bw) ==
  IF \E i \in DOMAIN seq : seq[i] = bw
  THEN (CHOOSE i \in DOMAIN seq : seq[i] = bw) - 1
  ELSE Len(seq)

\* lines 974-980: the placeholder kbps of every entry becomes its index
ToQualityIndices(m, brs) == [k \in DOMAIN m |-> [m[k] EXCEPT !.quality = IndexOf(brs, @)]]

\* lines 994-1012: per quality, scanning the keys downwards, the entry whose
\* required_frames beats all seen so far (strictly, from 0); a quality with
\* none keeps the value-initialised pair {0.0, NoEntry}.  The map is then
\* rebuilt from the pairs in quality order, a later pair overwriting an
\* equal key.
NoDropPick(m, q) ==
  LET cands == {k \in DOMAIN m : m[k].quality = q /\ m[k].required_frames > 0}
      best == {k \in cands : \A j \in cands : m[j].required_frames <= m[k].required_frames}
  IN  IF cands = {} THEN <<0, NoEntry>>
      ELSE LET k == CHOOSE k \in best : \A j \in best : j <= k IN <<k, m[k]>>

NoDropReshape(m, nq) ==
  LET pairs == [q \in 0 .. nq - 1 |-> NoDropPick(m, q)]
      keys == {pairs[q][1] : q \in 0 .. nq - 1}
      last(k) == CHOOSE q \in 0 .. nq - 1 : pairs[q][1] = k /\
                   \A p \in 0 .. nq - 1 : pairs[p][1] = k => p <= q
  IN  [k \in keys |-> pairs[last(k)][2]]

\* std::reverse (line 1013)
Reversed(s) == [i \in 1 .. Len(s) |-> s[Len(s) - i + 1]]

\* lines 962-1013 once xml_reader.Read() returns false: the bitrates are the
\* adaptation set's keys in ascending order
EndOfManifest ==
  /\ status = "parsing" /\ pos > Len(manifest)
  /\ LET keys == DOMAIN adaptation_set
         brs == [i \in 1 .. Cardinality(keys) |->
                   CHOOSE b \in keys : Cardinality({c \in keys : c < b}) = i - 1]
         indexed == [i \in DOMAIN ssim_map |-> ToQualityIndices(ssim_map[i], brs)]
     IN  /\ bitrates' = brs
         /\ ssim_map' = IF NoDrop
                        THEN [i \in DOMAIN indexed |-> NoDropReshape(indexed[i], Len(brs))]
                        ELSE indexed
  /\ avg_ssims' = Reversed(avg_ssims)
  /\ status' = "done"
  /\ UNCHANGED <<manifest, pos, adaptation_set, current_repr_bw, segment_duration,
                 repr_avg>>

Done == status # "parsing" /\ UNCHANGED vars

Next == Representation \/ BaseURL \/ Initialization \/ SegmentList \/ SegmentURL
          \/ EndOfManifest \/ Done

Spec == Init /\ [][Next]_vars

\* Spec section 3: representations may come in any order, the core orders
\* them by ascending bitrate, and avg_ssim[q] is quality q's score (what
\* BolaAbr's utilities are built from, line 1064); section 8: with no_drop
\* the reshaped map holds exactly one entry per bitrate.  main reverses
\* avg_ssims as read (line 1013), and rebuilds the no_drop map by SSIM key.
ParsedAsSpecified ==
  status = "done" =>
    /\ Len(avg_ssims) = Len(bitrates)
    /\ \A q \in 1 .. Len(bitrates) : avg_ssims[q] = repr_avg[bitrates[q]]
    /\ NoDrop => \A i \in DOMAIN ssim_map : Cardinality(DOMAIN ssim_map[i]) = Len(bitrates)

(***************************************************************************)
(* Model values: two representations of 2 and 4 kbps with 4 s segments,   *)
(* two media segments each.  A segment offers a reliable-only entry (0     *)
(* frames) and one with 40 unreliable frames.  The 4 kbps second segment  *)
(* may instead reuse the 2 kbps SSIM of 82 for its reliable entry, with or *)
(* without a 40-frame entry beside it.  The MPD lists the representations  *)
(* in either order.                                                        *)
(***************************************************************************)
Ssim(s, f, z) == [ssim |-> s, frames |-> f, size |-> z]
Seg(ssims) == [kind |-> "SegmentURL", ssims |-> ssims, reliable_size |-> 5]
Repr(bps, avg, name, s1, s2) ==
  << [kind |-> "Representation", bandwidth |-> bps, avg_ssim |-> avg],
     [kind |-> "BaseURL", name |-> name],
     [kind |-> "SegmentList", duration |-> 4000, timescale |-> 1000],
     [kind |-> "Initialization"], Seg(s1), Seg(s2) >>
Low == Repr(2000, 90, "lo", {Ssim(50, 0, 0), Ssim(80, 40, 10)},
                             {Ssim(55, 0, 0), Ssim(82, 40, 10)})
HighVariants ==
  { Repr(4000, 96, "hi", {Ssim(85, 0, 0), Ssim(97, 40, 20)}, s2) :
      s2 \in { {Ssim(88, 0, 0), Ssim(98, 40, 20)},
               {Ssim(82, 0, 0)},
               {Ssim(82, 0, 0), Ssim(98, 40, 20)} } }
MCManifests == UNION {{Low \o h, h \o Low} : h \in HighVariants}
=============================================================================
