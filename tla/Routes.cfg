SPECIFICATION AnalyticsSpec
CONSTANTS
  Text = {"health", "analytics", "top-content", "activity", "me", "favorite-sections", "favorite-tags", "auth", "session", "register", "confirm", "login", "content", "like", "likes", "comments", "", "k", "a b", "k160", "k300"}
  Clean = {"health", "activity", "k", "like", "k160", "k300"}
  Id = {"", "k", "a b", "k160", "k300", "like"}
  Body = {"empty", "spaces", "object", "object and spaces", "object and more", "array", "broken"}
  Size <- SizeOf
  Url <- UrlTried
  LongMax = 1023
  NoText = noText
  Content = {1, 2, 3}
  MaxRows = 2
  Ages = {1, 2}
  Tables <- TablesTried
  Days <- DayTexts
  Limits <- LimitTexts
INVARIANT
  UnknownRouteIsNotFound
CHECK_DEADLOCK FALSE
