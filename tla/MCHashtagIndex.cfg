SPECIFICATION Spec
CONSTANTS
  p1 = p1
  p2 = p2
  p3 = p3
  s1 = s1
  s2 = s2
  cats = cats
  Posts = {p1, p2, p3}
  Local = {p1, p3}
  Tags = {cats}
  TagsOf <- MCTagsOf
  Searches = {s1, s2}
  BatchSize = 2
  MaxKey = 3
SYMMETRY SearchSymmetry
INVARIANTS TypeOK CountsMatch NothingSkipped SearchSeesEarlierPosts
