\* Two threads, one post, one draft that needs nobody and a run that drafts two
\* pitches, a text of the approver or none, one fault.
SPECIFICATION Spec
CONSTANTS
  Threads = {t1, t2}
  post1 = post1  auto = auto  pitch1 = pitch1  pitch2 = pitch2  question = question
  Items = {post1, auto, pitch1, pitch2}
  Type <- Kind
  Gated <- NotAuto
  ResultMap = {"post.drafted", "pitch.drafted"}
  Batches <- Together
  Texts = {text}
  NoText = NoText
  Requests <- Sensible
  NoItem = NoItem
  MaxFaults = 1
SYMMETRY Symmetry
INVARIANTS
  OnePlace
  NoneForgotten
  PostedAsApproved
  Threaded
PROPERTY ImplementsGate
