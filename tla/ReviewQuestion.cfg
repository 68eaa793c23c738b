\* Runs that draft one event each, no fault: a post, a pitch, and the question of an
\* unsure scrape.
SPECIFICATION Spec
CONSTANTS
  Threads = {t1, t2}
  post1 = post1  auto = auto  pitch1 = pitch1  pitch2 = pitch2  question = question
  Items = {post1, pitch1, question}
  Type <- Kind
  Gated <- NotAuto
  ResultMap = {"post.drafted", "pitch.drafted"}
  Batches <- OnePerRun
  Texts = {text}
  NoText = NoText
  Requests <- Sensible
  NoItem = NoItem
  MaxFaults = 0
SYMMETRY Symmetry
INVARIANT
  TaggedIsParked
